---- MODULE Spec2Model ----
(***************************************************************************)
(* Work-hour and payroll tracker: the pay computation (utils.ts), the      *)
(* clock-in / break / clock-out session of ClockInTimer.tsx, the manual    *)
(* entry form of WorkEntryForm.tsx, the log collection of App.tsx and the  *)
(* remote key-value store of pantry.ts.                                    *)
(***************************************************************************)
EXTENDS Integers, Sequences, FiniteSets, TLC

(***************************************************************************)
(* JavaScript numbers are IEEE-754 doubles.  The pay computation divides   *)
(* and multiplies by non-dyadic values, so its result depends on the       *)
(* rounding of each operation.  A double is modelled as                    *)
(*     [sign, man, exp]   with value  sign * man * 2^exp,                  *)
(* man = 0 or 2^52 <= man < 2^53.  Mantissas do not fit TLC's integers;    *)
(* they are little-endian sequences of limbs in base 2^15.                 *)
(***************************************************************************)
LimbBits == 15

LimbBase == 2 ^ LimbBits

MantBits == 53

RECURSIVE Pow2(_)
Pow2(n) == IF n <= 0 THEN 1 ELSE 2 * Pow2(n - 1)

RECURSIVE BNorm(_)
BNorm(a) ==
  IF a = <<>> THEN <<>>
  ELSE IF a[Len(a)] = 0 THEN BNorm(SubSeq(a, 1, Len(a) - 1))
  ELSE a

RECURSIVE BFromInt(_)
BFromInt(n) ==
  IF n = 0 THEN <<>> ELSE <<n % LimbBase>> \o BFromInt(n \div LimbBase)

RECURSIVE BToInt(_)
BToInt(a) ==
  IF a = <<>> THEN 0 ELSE a[1] + LimbBase * BToInt(Tail(a))

BLimb(a, i) == IF i >= 1 /\ i <= Len(a) THEN a[i] ELSE 0

RECURSIVE BAddC(_, _, _)
BAddC(a, b, c) ==
  IF a = <<>> /\ b = <<>> THEN (IF c = 0 THEN <<>> ELSE <<c>>)
  ELSE LET s == BLimb(a, 1) + BLimb(b, 1) + c
       IN <<s % LimbBase>> \o
          BAddC(IF a = <<>> THEN <<>> ELSE Tail(a),
                IF b = <<>> THEN <<>> ELSE Tail(b), s \div LimbBase)

BAdd(a, b) == BAddC(a, b, 0)

\* a - b for a >= b
RECURSIVE BSubC(_, _, _)
BSubC(a, b, c) ==
  IF a = <<>> THEN <<>>
  ELSE LET d == a[1] - BLimb(b, 1) - c
       IN <<d % LimbBase>> \o
          BSubC(Tail(a), IF b = <<>> THEN <<>> ELSE Tail(b),
                IF d < 0 THEN 1 ELSE 0)

BSub(a, b) == BNorm(BSubC(a, b, 0))

\* -1, 0, 1 as a < b, a = b, a > b (both normalised)
RECURSIVE BCmpFrom(_, _, _)
BCmpFrom(a, b, i) ==
  IF i = 0 THEN 0
  ELSE IF a[i] < b[i] THEN -1
  ELSE IF a[i] > b[i] THEN 1
  ELSE BCmpFrom(a, b, i - 1)

BCmp(a, b) ==
  IF Len(a) < Len(b) THEN -1
  ELSE IF Len(a) > Len(b) THEN 1
  ELSE BCmpFrom(a, b, Len(a))

\* a * k for 0 <= k < LimbBase
RECURSIVE BMulSmallC(_, _, _)
BMulSmallC(a, k, c) ==
  IF a = <<>> THEN (IF c = 0 THEN <<>> ELSE <<c>>)
  ELSE LET p == a[1] * k + c
       IN <<p % LimbBase>> \o BMulSmallC(Tail(a), k, p \div LimbBase)

BMulSmall(a, k) == BNorm(BMulSmallC(a, k, 0))

BShlLimbs(a, n) ==
  IF a = <<>> THEN <<>> ELSE [i \in 1..n |-> 0] \o a

RECURSIVE BMul(_, _)
BMul(a, b) ==
  IF b = <<>> THEN <<>>
  ELSE BAdd(BMulSmall(a, b[1]), BShlLimbs(BMul(a, Tail(b)), 1))

\* floor(a / k) for 0 < k < LimbBase, from the most significant limb down
RECURSIVE BDivSmallR(_, _, _, _)
BDivSmallR(a, k, i, r) ==
  IF i = 0 THEN [quot |-> <<>>, rem |-> r]
  ELSE LET cur == r * LimbBase + a[i]
           rest == BDivSmallR(a, k, i - 1, cur % k)
       IN [quot |-> rest.quot \o <<cur \div k>>, rem |-> rest.rem]

BDivSmall(a, k) ==
  LET d == BDivSmallR(a, k, Len(a), 0)
  IN [quot |-> BNorm(d.quot), rem |-> d.rem]

BShl(a, n) ==
  BShlLimbs(BMulSmall(a, Pow2(n % LimbBits)), n \div LimbBits)

BShr(a, n) ==
  LET k == n \div LimbBits
  IN IF k >= Len(a) THEN <<>>
     ELSE BDivSmall(SubSeq(a, k + 1, Len(a)), Pow2(n % LimbBits)).quot

\* bit i (from 0) of a
BBit(a, i) ==
  IF i < 0 THEN 0
  ELSE (BLimb(a, (i \div LimbBits) + 1) \div Pow2(i % LimbBits)) % 2

\* some bit below bit n of a is set
BLowBitsSet(a, n) ==
  IF n <= 0 THEN FALSE
  ELSE LET k == n \div LimbBits
       IN \/ \E i \in 1..k : BLimb(a, i) # 0
          \/ BLimb(a, k + 1) % Pow2(n % LimbBits) # 0

RECURSIVE IntBitLen(_)
IntBitLen(n) == IF n = 0 THEN 0 ELSE 1 + IntBitLen(n \div 2)

BBitLen(a) ==
  IF a = <<>> THEN 0
  ELSE LimbBits * (Len(a) - 1) + IntBitLen(a[Len(a)])

\* the double nearest to sign * n * 2^e (round to nearest, ties to even)
RoundBig(sign, n, e) ==
  LET len == BBitLen(n)
  IN IF len = 0 THEN [sign |-> sign, man |-> <<>>, exp |-> 0]
     ELSE IF len <= MantBits
       THEN [sign |-> sign, man |-> BShl(n, MantBits - len),
             exp |-> e - (MantBits - len)]
     ELSE LET sh == len - MantBits
              q == BShr(n, sh)
              guard == BBit(n, sh - 1)
              sticky == BLowBitsSet(n, sh - 1)
              up == guard = 1 /\ (sticky \/ BBit(q, 0) = 1)
              q1 == IF up THEN BAdd(q, <<1>>) ELSE q
          IN IF BBitLen(q1) > MantBits
               THEN [sign |-> sign, man |-> BShr(q1, 1), exp |-> e + sh + 1]
               ELSE [sign |-> sign, man |-> q1, exp |-> e + sh]

\* Number(n) for an integer n
FromInt(n) ==
  IF n < 0 THEN RoundBig(-1, BFromInt(-n), 0) ELSE RoundBig(1, BFromInt(n), 0)

\* x / d for a positive integer divisor d < 2^15 (the code divides by 60)
FDivInt(x, d) ==
  IF x.man = <<>> THEN x
  ELSE LET dm == BDivSmall(BShl(x.man, LimbBits + 3), d)
           n == BAdd(BMulSmall(dm.quot, 2), IF dm.rem = 0 THEN <<>> ELSE <<1>>)
       IN RoundBig(x.sign, n, x.exp - (LimbBits + 3) - 1)

\* x * y
FMul(x, y) == RoundBig(x.sign * y.sign, BMul(x.man, y.man), x.exp + y.exp)

\* x + y
FAdd(x, y) ==
  IF x.man = <<>> THEN y
  ELSE IF y.man = <<>> THEN x
  ELSE LET emin == IF x.exp < y.exp THEN x.exp ELSE y.exp
           nx == BShl(x.man, x.exp - emin)
           ny == BShl(y.man, y.exp - emin)
       IN IF x.sign = y.sign THEN RoundBig(x.sign, BAdd(nx, ny), emin)
          ELSE IF BCmp(nx, ny) >= 0 THEN RoundBig(x.sign, BSub(nx, ny), emin)
          ELSE RoundBig(y.sign, BSub(ny, nx), emin)

\* Math.round(x): the nearest integer, a tie going towards +Infinity
MathRound(x) ==
  IF x.man = <<>> THEN 0
  ELSE IF x.exp >= 0 THEN x.sign * BToInt(BShl(x.man, x.exp))
  ELSE LET sh == 0 - x.exp
           fl == BToInt(BShr(x.man, sh))
           guard == BBit(x.man, sh - 1)
           sticky == BLowBitsSet(x.man, sh - 1)
       IN IF x.sign = 1 THEN fl + guard
          ELSE 0 - (fl + (IF guard = 1 /\ sticky THEN 1 ELSE 0))

(***************************************************************************)
(* utils.ts: the pay breakdown.                                            *)
(***************************************************************************)
Min(a, b) == IF a < b THEN a ELSE b

Max(a, b) == IF a > b THEN a ELSE b

REGULAR_LIMIT == 480

OT_LEVEL1_LIMIT == 120

MinutesPerHour == 60

\* the literals 1.34 and 1.67: the doubles nearest to 134/100 and 167/100
OT1_MULTIPLIER == FDivInt(FromInt(134), 100)

OT2_MULTIPLIER == FDivInt(FromInt(167), 100)

\* totalPayOf with the pay of the second overtime tier deducted
totalPayOvertimeDeducted(regularMinutes, overtimeLevel1Minutes, overtimeLevel2Minutes, hourlyRate) ==
  LET rate == FromInt(hourlyRate)
      regularPay == FMul(FDivInt(FromInt(regularMinutes), MinutesPerHour), rate)
      ot1Pay == FMul(FMul(FDivInt(FromInt(overtimeLevel1Minutes), MinutesPerHour), rate),
                     OT1_MULTIPLIER)
      ot2Pay == FMul(FMul(FDivInt(FromInt(0 - overtimeLevel2Minutes), MinutesPerHour), rate),
                     OT2_MULTIPLIER)
  IN MathRound(FAdd(FAdd(regularPay, ot1Pay), ot2Pay))

\* totalPayOf with every tier's pay rounded by itself
totalPayPerTier(regularMinutes, overtimeLevel1Minutes, overtimeLevel2Minutes, hourlyRate) ==
  LET rate == FromInt(hourlyRate)
      regularPay == FMul(FDivInt(FromInt(regularMinutes), MinutesPerHour), rate)
      ot1Pay == FMul(FMul(FDivInt(FromInt(overtimeLevel1Minutes), MinutesPerHour), rate),
                     OT1_MULTIPLIER)
      ot2Pay == FMul(FMul(FDivInt(FromInt(overtimeLevel2Minutes), MinutesPerHour), rate),
                     OT2_MULTIPLIER)
  IN MathRound(regularPay) + MathRound(ot1Pay) + MathRound(ot2Pay)

\* Math.round(regularPay + ot1Pay + ot2Pay), left to right
totalPayOf(regularMinutes, overtimeLevel1Minutes, overtimeLevel2Minutes, hourlyRate) ==
  LET rate == FromInt(hourlyRate)
      regularPay == FMul(FDivInt(FromInt(regularMinutes), MinutesPerHour), rate)
      ot1Pay == FMul(FMul(FDivInt(FromInt(overtimeLevel1Minutes), MinutesPerHour), rate),
                     OT1_MULTIPLIER)
      ot2Pay == FMul(FMul(FDivInt(FromInt(overtimeLevel2Minutes), MinutesPerHour), rate),
                     OT2_MULTIPLIER)
  IN MathRound(FAdd(FAdd(regularPay, ot1Pay), ot2Pay))

\* payTiers without the limit of the first overtime tier
payTiersUncapped(totalMinutes) ==
  LET regularMinutes == Min(totalMinutes, REGULAR_LIMIT)
      remaining1 == Max(0, totalMinutes - regularMinutes)
  IN [regularMinutes |-> regularMinutes,
      overtimeLevel1Minutes |-> remaining1,
      overtimeLevel2Minutes |-> 0]

\* payTiers with the first overtime tier filled before the regular hours
payTiersOvertimeFirst(totalMinutes) ==
  LET overtimeLevel1Minutes == Min(totalMinutes, OT_LEVEL1_LIMIT)
      remaining1 == Max(0, totalMinutes - overtimeLevel1Minutes)
      regularMinutes == Min(remaining1, REGULAR_LIMIT)
      remaining2 == Max(0, remaining1 - regularMinutes)
  IN [regularMinutes |-> regularMinutes,
      overtimeLevel1Minutes |-> overtimeLevel1Minutes,
      overtimeLevel2Minutes |-> remaining2]

\* lines 71-82: the minutes of each tier
payTiers(totalMinutes) ==
  LET regularMinutes == Min(totalMinutes, REGULAR_LIMIT)
      remaining1 == Max(0, totalMinutes - regularMinutes)
      overtimeLevel1Minutes == Min(remaining1, OT_LEVEL1_LIMIT)
      remaining2 == Max(0, remaining1 - overtimeLevel1Minutes)
      overtimeLevel2Minutes == remaining2
  IN [regularMinutes |-> regularMinutes,
      overtimeLevel1Minutes |-> overtimeLevel1Minutes,
      overtimeLevel2Minutes |-> overtimeLevel2Minutes]

calculatePayBreakdown(totalMinutes, hourlyRate) ==
  LET tiers == payTiers(totalMinutes)
  IN [regularMinutes |-> tiers.regularMinutes,
      overtimeLevel1Minutes |-> tiers.overtimeLevel1Minutes,
      overtimeLevel2Minutes |-> tiers.overtimeLevel2Minutes,
      totalPay |-> totalPayOf(tiers.regularMinutes, tiers.overtimeLevel1Minutes,
                              tiers.overtimeLevel2Minutes, hourlyRate)]

\* the arguments the handlers pass to calculatePayBreakdown in this model
PayKeys ==
  {<<m, r>> : m \in {30 * i : i \in (0 - 6)..60} \cup {45, 540, 855},
              r \in {220, 100, 0 - 100}}

\* calculatePayBreakdown at those arguments, computed once
PayTable == [k \in PayKeys |-> calculatePayBreakdown(k[1], k[2])]

\* the call of calculatePayBreakdown in a handler
payBreakdownAt(totalMinutes, hourlyRate) ==
  IF <<totalMinutes, hourlyRate>> \in PayKeys
    THEN PayTable[<<totalMinutes, hourlyRate>>]
    ELSE calculatePayBreakdown(totalMinutes, hourlyRate)

(***************************************************************************)
(* Strings.  A string is a sequence of one-character strings, so that      *)
(* formatting and parsing are computed and not assumed inverse.            *)
(***************************************************************************)
Digits == <<"0", "1", "2", "3", "4", "5", "6", "7", "8", "9">>

DigitVal(c) == (CHOOSE i \in 1..Len(Digits) : Digits[i] = c) - 1

\* String(n).padStart(2, '0') for 0 <= n <= 99
Pad2(n) == <<Digits[(n \div 10) + 1], Digits[(n % 10) + 1]>>

\* Number(s) for a string of decimal digits
RECURSIVE NumberOf(_)
NumberOf(s) ==
  IF s = <<>> THEN 0
  ELSE 10 * NumberOf(SubSeq(s, 1, Len(s) - 1)) + DigitVal(s[Len(s)])

\* s.split(':'), for a string holding one colon
SplitColon(s) ==
  LET k == CHOOSE i \in 1..Len(s) : s[i] = ":"
  IN <<SubSeq(s, 1, k - 1), SubSeq(s, k + 1, Len(s))>>

\* a.localeCompare(b) for strings of digits, ':' and '-': -1, 0, 1
RECURSIVE localeCompare(_, _)
localeCompare(a, b) ==
  IF a = <<>> /\ b = <<>> THEN 0
  ELSE IF a = <<>> THEN -1
  ELSE IF b = <<>> THEN 1
  ELSE IF a[1] = b[1] THEN localeCompare(Tail(a), Tail(b))
  ELSE IF a[1] \in {":", "-"} THEN -1
  ELSE IF b[1] \in {":", "-"} THEN 1
  ELSE IF DigitVal(a[1]) < DigitVal(b[1]) THEN -1 ELSE 1

MsPerMinute == 60000

MsPerHour == 60 * MsPerMinute

MsPerDay == 24 * MsPerHour

\* the value of an <input type="time">: HH:mm
TimeStr(h, m) == Pad2(h) \o <<":">> \o Pad2(m)

\* new Date(0, 0, 0, h, m, 0).getTime(), counted from new Date(0, 0, 0, 0, 0, 0)
DateOfTime(h, m) == h * MsPerHour + m * MsPerMinute

(***************************************************************************)
(* utils.ts: calculateDurationMinutes.                                     *)
(***************************************************************************)
\* calculateDurationMinutes without the overnight case
calculateDurationSameDay(start, end) ==
  IF start = <<>> \/ end = <<>> THEN 0
  ELSE LET startH == NumberOf(SplitColon(start)[1])
           startM == NumberOf(SplitColon(start)[2])
           endH == NumberOf(SplitColon(end)[1])
           endM == NumberOf(SplitColon(end)[2])
           diffMs == DateOfTime(endH, endM) - DateOfTime(startH, startM)
       IN diffMs \div MsPerMinute

calculateDurationMinutes(start, end) ==
  IF start = <<>> \/ end = <<>> THEN 0
  ELSE LET startH == NumberOf(SplitColon(start)[1])
           startM == NumberOf(SplitColon(start)[2])
           endH == NumberOf(SplitColon(end)[1])
           endM == NumberOf(SplitColon(end)[2])
           startDate == DateOfTime(startH, startM)
           endDate0 == DateOfTime(endH, endM)
           endDate == IF endDate0 < startDate THEN endDate0 + MsPerDay ELSE endDate0
           diffMs == endDate - startDate
       IN diffMs \div MsPerMinute

\* roundTo30Minutes is imported by ClockInTimer.tsx from utils; its body is
\* not in the sources.  The specification: round down to a multiple of 30.
BillingUnit == 30

roundTo30Minutes(rawMinutes) == (rawMinutes \div BillingUnit) * BillingUnit

(***************************************************************************)
(* State.  An optional value (T | null) is a sequence of length <= 1.      *)
(* Instants are milliseconds counted from 2026-02-01T00:00:00Z.            *)
(***************************************************************************)
VARIABLES
  now,            \* Date.now()
  ticks,          \* how often the clock has advanced
  defaultRate,    \* App: defaultRate
  pantryId,       \* App: pantryId; "" is local mode
  session,        \* ClockInTimer: session (ActiveSession | null)
  localSession,   \* localStorage[LOCAL_SESSION_KEY]
  remoteSession,  \* the remote basket 'session': absent or its JSON content
  sessionWrites,  \* POSTs of updateRemoteSession in flight
  sessionReads,   \* getRemoteSession calls of loadSession / the poll in flight
  logs,           \* App: logs
  localLogs,      \* localStorage[STORAGE_KEY]
  remoteLogs,     \* the remote basket 'worklogs': absent or its logs array
  logWrites,      \* POSTs of updateRemoteLogs in flight
  logReads,       \* getRemoteLogs calls of syncData in flight
  nextId,         \* the next crypto.randomUUID()
  otherWrites,    \* how often another device has written the session basket
  polls,          \* how often the poll interval has fired
  connects,       \* how often a remote binding has been entered
  inflightCap,    \* how many POSTs to one basket the network holds at a time
  op,             \* the last operation, its inputs and its outcome
  pure            \* the call of a pure function under check

vars == <<now, ticks, defaultRate, pantryId, session, localSession, remoteSession,
          sessionWrites, sessionReads, logs, localLogs, remoteLogs, logWrites,
          logReads, nextId, otherWrites, polls, connects, inflightCap, op, pure>>

sessionVars == <<session, localSession, remoteSession, sessionWrites, sessionReads>>

logVars == <<logs, localLogs, remoteLogs, logWrites, logReads, nextId>>

countVars == <<otherWrites, polls, connects, inflightCap>>

Null == <<>>

Some(x) == <<x>>

\* x is truthy, for a number | null
Truthy(x) == x # Null /\ x[1] # 0

(***************************************************************************)
(* Bounds of the model.                                                    *)
(***************************************************************************)
MaxTicks == 2

MaxLogs == 1

MaxInflight == 1

MaxOtherWrites == 1

MaxPolls == 1

MaxConnects == 1

\* the steps by which the clock advances: 29 min 30 s, 8 h 30 min
TickSteps == {1770 * 1000, 30600 * 1000}

\* how far the clock of another device may be ahead: not at all, or 61 min
OtherClockSkews == {0, 61 * MsPerMinute}

\* the rates typed into the settings panel (App.tsx:184-189 sets no minimum)
RateInputs == {220, 0 - 100}

\* the rates the manual form accepts (min="0")
FormRates == {100}

\* the browser's getTimezoneOffset(): UTC+8
TimezoneOffset == 0 - 480

DEFAULT_PANTRY_ID == "085e1276-c22a-4c58-9a2b-3b40d8fce6d9"

TIMER_NOTE == "clock-in record"

InitialRate == 220

\* 2026-02-01 09:00 local time
InitialNow == 1 * MsPerHour

(***************************************************************************)
(* ClockInTimer.tsx: local time of an instant.                             *)
(***************************************************************************)
LocalMs(ts) == ts - TimezoneOffset * MsPerMinute

\* new Date(ts).toTimeString().slice(0, 5)
formatTimeStr(ts) ==
  TimeStr((LocalMs(ts) \div MsPerHour) % 24, (LocalMs(ts) \div MsPerMinute) % 60)

\* YYYY-MM-DD of day d of the model's month, February 2026
DateStr(d) == <<"2", "0", "2", "6", "-", "0", "2", "-">> \o Pad2(d + 1)

\* logDate.setMinutes(getMinutes() - getTimezoneOffset()); toJSON().slice(0, 10)
dateStrOf(ts) == DateStr(LocalMs(ts) \div MsPerDay)

(***************************************************************************)
(* utils.ts: sortLogs.  Array.prototype.sort is stable.                    *)
(***************************************************************************)
\* new Date(date).getTime(), counted from 2026-02-01
dateGetTime(date) == (NumberOf(SubSeq(date, 9, 10)) - 1) * MsPerDay

\* the comparator of sortLogs: negative when a goes first
compareLogs(a, b) ==
  LET dateComp == dateGetTime(b.date) - dateGetTime(a.date)
  IN IF dateComp # 0 THEN dateComp ELSE localeCompare(b.startTime, a.startTime)

RECURSIVE insertLog(_, _)
insertLog(sorted, x) ==
  IF sorted = <<>> THEN <<x>>
  ELSE IF compareLogs(sorted[1], x) > 0 THEN <<x>> \o sorted
  ELSE <<sorted[1]>> \o insertLog(Tail(sorted), x)

\* sortLogs that returns the array as it is
keepOrder(ls) == ls

RECURSIVE sortLogs(_)
sortLogs(ls) ==
  IF ls = <<>> THEN <<>>
  ELSE insertLog(sortLogs(SubSeq(ls, 1, Len(ls) - 1)), ls[Len(ls)])

(***************************************************************************)
(* pantry.ts: the remote store.                                            *)
(***************************************************************************)
\* the body POSTed for a null session; its other fields are not set and are
\* never read, because getRemoteSession answers null for startTime 0
ClearedMarker ==
  [status |-> "idle", startTime |-> 0, breakStartTime |-> Null,
   accumulatedBreakTime |-> 0]

\* getRemoteSession without `if (!data.startTime) return null`
getRemoteSessionAsStored(basket, ok) ==
  IF ~ok \/ basket = Null THEN Null ELSE basket

\* what getRemoteSession answers for a basket; ok is false when fetch throws
\* or the response is not OK (a basket that does not exist answers 400)
getRemoteSession(basket, ok) ==
  IF ~ok \/ basket = Null THEN Null
  ELSE IF basket[1].startTime = 0 THEN Null
  ELSE basket

\* the body updateRemoteSession POSTs
sessionBody(newSession) ==
  IF newSession # Null THEN newSession[1] ELSE ClearedMarker

\* what getRemoteLogs answers: data.logs || [], and [] on any failure
getRemoteLogs(basket, ok) ==
  IF ~ok \/ basket = Null THEN <<>> ELSE basket[1]

(***************************************************************************)
(* The handler that ran in the last step: its name, its outcome, the log   *)
(* it built, the arguments it passed to calculatePayBreakdown and, for a   *)
(* clock-out, the session it found and the instant.                        *)
(***************************************************************************)
NoPay == <<>>

Op(name, outcome, log, pay) ==
  [name |-> name, outcome |-> outcome, before |-> Null, at |-> 0,
   log |-> log, pay |-> pay]

\* no handler has run since the last step of the clock or the network
NoOp == Op("none", "done", Null, NoPay)

IdlePure ==
  [fn |-> "none", totalMinutes |-> 0, hourlyRate |-> 0, start |-> <<>>,
   end |-> <<>>, done |-> FALSE,
   breakdown |-> [regularMinutes |-> 0, overtimeLevel1Minutes |-> 0,
                  overtimeLevel2Minutes |-> 0, totalPay |-> 0],
   minutes |-> 0]

(***************************************************************************)
(* ClockInTimer.tsx: saveSession, and App.tsx: handleAddLog.               *)
(***************************************************************************)
\* saveSession without localStorage.setItem / removeItem
saveSessionMemoryOnly(newSession) ==
  /\ session' = newSession
  /\ sessionWrites' = IF pantryId # "" THEN sessionWrites \cup {sessionBody(newSession)}
                      ELSE sessionWrites
  /\ UNCHANGED <<localSession, remoteSession, sessionReads>>

saveSession(newSession) ==
  /\ session' = newSession
  /\ localSession' = newSession
  /\ sessionWrites' = IF pantryId # "" THEN sessionWrites \cup {sessionBody(newSession)}
                      ELSE sessionWrites
  /\ UNCHANGED <<remoteSession, sessionReads>>

\* handleAddLog that starts the collection again from newLog
handleAddLogAlone(newLog) ==
  /\ logs' = <<newLog>>
  /\ localLogs' = <<newLog>>
  /\ logWrites' = IF pantryId # "" THEN logWrites \cup {<<newLog>>} ELSE logWrites
  /\ nextId' = nextId + 1
  /\ UNCHANGED <<remoteLogs, logReads>>

handleAddLog(newLog) ==
  LET updatedLogs == sortLogs(<<newLog>> \o logs)
  IN /\ logs' = updatedLogs
     /\ localLogs' = updatedLogs
     /\ logWrites' = IF pantryId # "" THEN logWrites \cup {updatedLogs} ELSE logWrites
     /\ nextId' = nextId + 1
     /\ UNCHANGED <<remoteLogs, logReads>>

\* the model issues a remote write only while fewer than inflightCap are in flight
CanWriteSession == pantryId = "" \/ Cardinality(sessionWrites) < inflightCap

CanWriteLogs == pantryId = "" \/ Cardinality(logWrites) < inflightCap

(***************************************************************************)
(* ClockInTimer.tsx: the session handlers.                                 *)
(***************************************************************************)
newSessionAt(t) ==
  [status |-> "working", startTime |-> t, breakStartTime |-> Null,
   accumulatedBreakTime |-> 0]

\* handleClockIn without `if (session) return`
handleClockInUnguarded ==
  /\ CanWriteSession
  /\ saveSession(Some(newSessionAt(now)))
  /\ op' = Op("handleClockIn", "done", Null, NoPay)
  /\ UNCHANGED <<now, ticks, defaultRate, pantryId, logVars, countVars, pure>>

handleClockIn ==
  /\ CanWriteSession
  /\ IF session # Null
       THEN /\ op' = Op("handleClockIn", "rejected", Null, NoPay)
            /\ UNCHANGED sessionVars
       ELSE /\ saveSession(Some(newSessionAt(now)))
            /\ op' = Op("handleClockIn", "done", Null, NoPay)
  /\ UNCHANGED <<now, ticks, defaultRate, pantryId, logVars, countVars, pure>>

\* startBreakOf with the breaks already taken forgotten
startBreakForgettingBreaks(s, t) ==
  [s EXCEPT !.status = "break", !.breakStartTime = Some(t),
            !.accumulatedBreakTime = 0]

startBreakOf(s, t) ==
  [s EXCEPT !.status = "break", !.breakStartTime = Some(t)]

handleStartBreak ==
  /\ CanWriteSession
  /\ IF session = Null
       THEN /\ op' = Op("handleStartBreak", "rejected", Null, NoPay)
            /\ UNCHANGED sessionVars
       ELSE /\ saveSession(Some(startBreakOf(session[1], now)))
            /\ op' = Op("handleStartBreak", "done", Null, NoPay)
  /\ UNCHANGED <<now, ticks, defaultRate, pantryId, logVars, countVars, pure>>

\* endBreakOf with the break that ends left out of accumulatedBreakTime
endBreakForgettingBreak(s, t) ==
  [s EXCEPT !.status = "working", !.breakStartTime = Null]

endBreakOf(s, t) ==
  [s EXCEPT !.status = "working", !.breakStartTime = Null,
            !.accumulatedBreakTime = s.accumulatedBreakTime + (t - s.breakStartTime[1])]

handleEndBreak ==
  /\ CanWriteSession
  /\ IF session = Null \/ ~Truthy(session[1].breakStartTime)
       THEN /\ op' = Op("handleEndBreak", "rejected", Null, NoPay)
            /\ UNCHANGED sessionVars
       ELSE /\ saveSession(Some(endBreakOf(session[1], now)))
            /\ op' = Op("handleEndBreak", "done", Null, NoPay)
  /\ UNCHANGED <<now, ticks, defaultRate, pantryId, logVars, countVars, pure>>

\* finalAccumulatedBreakOf with the break in progress dropped
closedBreaksOnly(s, endTime) == s.accumulatedBreakTime

finalAccumulatedBreakOf(s, endTime) ==
  IF s.status = "break" /\ Truthy(s.breakStartTime)
    THEN s.accumulatedBreakTime + (endTime - s.breakStartTime[1])
    ELSE s.accumulatedBreakTime

\* rawWorkMinutesOf with the breaks counted as work
rawElapsedMinutesOf(s, endTime) == (endTime - s.startTime) \div MsPerMinute

\* Math.floor(workDurationMs / 60000)
rawWorkMinutesOf(s, endTime) ==
  LET totalDurationMs == endTime - s.startTime
      workDurationMs == totalDurationMs - finalAccumulatedBreakOf(s, endTime)
  IN workDurationMs \div MsPerMinute

\* Math.floor(finalAccumulatedBreak / 60000)
breakMinutesOf(s, endTime) == finalAccumulatedBreakOf(s, endTime) \div MsPerMinute

\* the WorkLog literal of handleClockOut (182-195) and handleManualSubmit (61-76)
workLog(id, date, startTime, endTime, breakMinutes, breakStartTime, breakEndTime, hourlyRate, totalMinutes, pb, note) ==
  [id |-> id,
   date |-> date,
   startTime |-> startTime,
   endTime |-> endTime,
   breakMinutes |-> breakMinutes,
   breakStartTime |-> breakStartTime,
   breakEndTime |-> breakEndTime,
   hourlyRate |-> hourlyRate,
   totalMinutes |-> totalMinutes,
   regularMinutes |-> pb.regularMinutes,
   overtimeLevel1Minutes |-> pb.overtimeLevel1Minutes,
   overtimeLevel2Minutes |-> pb.overtimeLevel2Minutes,
   totalPay |-> pb.totalPay,
   note |-> note]

actualWorkMinutesOf(s, endTime) == roundTo30Minutes(rawWorkMinutesOf(s, endTime))

\* clockOutLog with the pay of the minutes before the rounding to 30
clockOutLogRawPay(s, endTime, rate, id) ==
  workLog(id, dateStrOf(s.startTime), formatTimeStr(s.startTime), formatTimeStr(endTime),
          breakMinutesOf(s, endTime), <<>>, <<>>, rate, actualWorkMinutesOf(s, endTime),
          payBreakdownAt(rawWorkMinutesOf(s, endTime), rate), TIMER_NOTE)

\* clockOutLog dated by the clock-out instant
clockOutLogDatedAtEnd(s, endTime, rate, id) ==
  workLog(id, dateStrOf(endTime), formatTimeStr(s.startTime), formatTimeStr(endTime),
          breakMinutesOf(s, endTime), <<>>, <<>>, rate, actualWorkMinutesOf(s, endTime),
          payBreakdownAt(actualWorkMinutesOf(s, endTime), rate), TIMER_NOTE)

clockOutLog(s, endTime, rate, id) ==
  workLog(id, dateStrOf(s.startTime), formatTimeStr(s.startTime), formatTimeStr(endTime),
          breakMinutesOf(s, endTime), <<>>, <<>>, rate, actualWorkMinutesOf(s, endTime),
          payBreakdownAt(actualWorkMinutesOf(s, endTime), rate), TIMER_NOTE)

\* finishClockOut without the saveSession(null) that ends it
finishClockOutKeepingSession(s, endTime, newLog) ==
  /\ handleAddLog(newLog)
  /\ UNCHANGED sessionVars
  /\ op' = [name |-> "handleClockOut", outcome |-> "done", before |-> Some(s),
            at |-> endTime, log |-> Some(newLog),
            pay |-> Some([totalMinutes |-> newLog.totalMinutes,
                          hourlyRate |-> newLog.hourlyRate])]

\* lines 182-198: the log is added and the session cleared
finishClockOut(s, endTime, newLog) ==
  /\ handleAddLog(newLog)
  /\ saveSession(Null)
  /\ op' = [name |-> "handleClockOut", outcome |-> "done", before |-> Some(s),
            at |-> endTime, log |-> Some(newLog),
            pay |-> Some([totalMinutes |-> actualWorkMinutesOf(s, endTime),
                          hourlyRate |-> newLog.hourlyRate])]

\* handleClockOut without the window.confirm of lines 167-169
handleClockOutUnasked(confirm) ==
  /\ CanWriteSession /\ CanWriteLogs /\ nextId <= MaxLogs
  /\ IF session = Null
       THEN /\ op' = Op("handleClockOut", "rejected", Null, NoPay)
            /\ UNCHANGED <<sessionVars, logVars>>
       ELSE finishClockOut(session[1], now,
                           clockOutLog(session[1], now, defaultRate, nextId))
  /\ UNCHANGED <<now, ticks, defaultRate, pantryId, countVars, pure>>

\* confirm: the answer to window.confirm, asked when actualWorkMinutes <= 0
handleClockOut(confirm) ==
  /\ CanWriteSession /\ CanWriteLogs /\ nextId <= MaxLogs
  /\ IF session = Null
       THEN /\ op' = Op("handleClockOut", "rejected", Null, NoPay)
            /\ UNCHANGED <<sessionVars, logVars>>
       ELSE IF actualWorkMinutesOf(session[1], now) <= 0 /\ ~confirm
         THEN /\ op' = Op("handleClockOut", "declined", Null, NoPay)
              /\ UNCHANGED <<sessionVars, logVars>>
         ELSE finishClockOut(session[1], now,
                             clockOutLog(session[1], now, defaultRate, nextId))
  /\ UNCHANGED <<now, ticks, defaultRate, pantryId, countVars, pure>>

(***************************************************************************)
(* WorkEntryForm.tsx: the manual entry form.                               *)
(***************************************************************************)
\* the effect on [breakStartTime, breakEndTime]
formBreakMinutes(breakStartTime, breakEndTime) ==
  IF breakStartTime # <<>> /\ breakEndTime # <<>>
    THEN Max(0, calculateDurationMinutes(breakStartTime, breakEndTime))
    ELSE 0

\* formWorkMinutes under the rounding of the timer
formWorkMinutesRounded(startTime, endTime, breakMinutes) ==
  roundTo30Minutes(Max(0, calculateDurationMinutes(startTime, endTime) - breakMinutes))

formWorkMinutes(startTime, endTime, breakMinutes) ==
  Max(0, calculateDurationMinutes(startTime, endTime) - breakMinutes)

manualLog(date, startTime, endTime, breakStartTime, breakEndTime, hourlyRate, id) ==
  workLog(id, date, startTime, endTime, formBreakMinutes(breakStartTime, breakEndTime),
          breakStartTime, breakEndTime, hourlyRate,
          formWorkMinutes(startTime, endTime, formBreakMinutes(breakStartTime, breakEndTime)),
          payBreakdownAt(formWorkMinutes(startTime, endTime,
                                         formBreakMinutes(breakStartTime, breakEndTime)),
                         hourlyRate),
          "")

\* the values of the form's fields when it is submitted
FormFill(date, startTime, endTime, breakStartTime, breakEndTime) ==
  [date |-> date, startTime |-> startTime, endTime |-> endTime,
   breakStartTime |-> breakStartTime, breakEndTime |-> breakEndTime]

FormFills ==
  {FormFill(DateStr(0), TimeStr(9, 0), TimeStr(18, 0), <<>>, <<>>),
   FormFill(DateStr(1), TimeStr(9, 0), TimeStr(9, 45), <<>>, <<>>),
   FormFill(DateStr(0), TimeStr(18, 0), TimeStr(9, 0), TimeStr(9, 0), TimeStr(9, 45)),
   FormFill(DateStr(0), TimeStr(9, 0), TimeStr(9, 45), TimeStr(9, 0), TimeStr(9, 45)),
   FormFill(DateStr(0), TimeStr(9, 0), TimeStr(9, 0), TimeStr(12, 0), <<>>)}

\* submitManual without the check of lines 58-61
submitManualUnchecked(newLog) ==
  /\ handleAddLog(newLog)
  /\ op' = Op("handleManualSubmit", "done", Some(newLog),
              Some([totalMinutes |-> newLog.totalMinutes,
                    hourlyRate |-> newLog.hourlyRate]))

\* lines 55-86, for the log of the fields as rendered
submitManual(newLog) ==
  IF newLog.totalMinutes <= 0
    THEN /\ op' = Op("handleManualSubmit", "rejected", Some(newLog),
                     Some([totalMinutes |-> newLog.totalMinutes,
                           hourlyRate |-> newLog.hourlyRate]))
         /\ UNCHANGED logVars
    ELSE /\ handleAddLog(newLog)
         /\ op' = Op("handleManualSubmit", "done", Some(newLog),
                     Some([totalMinutes |-> newLog.totalMinutes,
                           hourlyRate |-> newLog.hourlyRate]))

handleManualSubmit(f, hourlyRate) ==
  /\ CanWriteLogs /\ nextId <= MaxLogs
  /\ submitManual(manualLog(f.date, f.startTime, f.endTime, f.breakStartTime,
                            f.breakEndTime, hourlyRate, nextId))
  /\ UNCHANGED <<now, ticks, defaultRate, pantryId, sessionVars, countVars, pure>>

(***************************************************************************)
(* App.tsx: the log collection, the settings and the remote binding.       *)
(***************************************************************************)
handleDeleteLog(id) ==
  LET updatedLogs == SelectSeq(logs, LAMBDA log : log.id # id)
  IN /\ CanWriteLogs
     /\ logs' = updatedLogs
     /\ localLogs' = updatedLogs
     /\ logWrites' = IF pantryId # "" THEN logWrites \cup {updatedLogs} ELSE logWrites
     /\ op' = Op("handleDeleteLog", "done", Null, NoPay)
     /\ UNCHANGED <<now, ticks, defaultRate, pantryId, sessionVars, remoteLogs, logReads,
                    nextId, countVars, pure>>

\* the settings panel: setDefaultRate(Number(e.target.value))
setDefaultRate(rate) ==
  /\ rate # defaultRate
  /\ defaultRate' = rate
  /\ op' = Op("setDefaultRate", "done", Null, NoPay)
  /\ UNCHANGED <<now, ticks, pantryId, sessionVars, logVars, countVars, pure>>

LoadRead == [kind |-> "load", phase |-> "sent", result |-> Null]

SyncRead(closureLogs) == [phase |-> "sent", closureLogs |-> closureLogs, result |-> <<>>]

\* valid: the answer of validatePantryId.  Setting pantryId re-runs syncData
\* and the effect of ClockInTimer (loadSession, the poll interval)
handleConnectPantry(valid) ==
  /\ pantryId = ""
  /\ connects < MaxConnects
  /\ IF valid
       THEN /\ pantryId' = DEFAULT_PANTRY_ID
            /\ connects' = connects + 1
            /\ sessionReads' = sessionReads \cup {LoadRead}
            /\ logReads' = logReads \cup {SyncRead(logs)}
            /\ op' = Op("handleConnectPantry", "done", Null, NoPay)
       ELSE /\ op' = Op("handleConnectPantry", "rejected", Null, NoPay)
            /\ UNCHANGED <<pantryId, sessionReads, logReads, connects>>
  /\ UNCHANGED <<now, ticks, defaultRate, session, localSession, remoteSession,
                 sessionWrites, logs, localLogs, remoteLogs, logWrites, nextId,
                 otherWrites, polls, inflightCap, pure>>

\* a text in local storage that JSON.parse rejects with a SyntaxError
CorruptJSON == <<[unparseable |-> TRUE]>>

JSONParses(text) == text # CorruptJSON

\* confirm: the answer to window.confirm.  With pantryId '' the effect of
\* ClockInTimer runs loadSession in local mode
handleDisconnect(confirm) ==
  /\ pantryId # ""
  /\ IF confirm
       THEN /\ pantryId' = ""
            /\ logs' = <<>>
            /\ session' = IF localSession # Null /\ JSONParses(localSession)
                            THEN localSession ELSE session
            /\ op' = Op("handleDisconnect", "done", Null, NoPay)
       ELSE /\ op' = Op("handleDisconnect", "declined", Null, NoPay)
            /\ UNCHANGED <<pantryId, logs, session>>
  /\ UNCHANGED <<now, ticks, defaultRate, localSession, remoteSession, sessionWrites,
                 sessionReads, localLogs, remoteLogs, logWrites, logReads, nextId,
                 countVars, pure>>

(***************************************************************************)
(* The clock, the network and the other device.                            *)
(***************************************************************************)
Tick(d) ==
  /\ ticks < MaxTicks
  /\ now' = now + d
  /\ ticks' = ticks + 1
  /\ op' = NoOp
  /\ UNCHANGED <<defaultRate, pantryId, sessionVars, logVars, countVars, pure>>

\* SessionWriteEnds that undoes the local change when the POST fails
SessionWriteEndsRollingBack(w, ok) ==
  /\ w \in sessionWrites
  /\ sessionWrites' = sessionWrites \ {w}
  /\ remoteSession' = IF ok THEN Some(w) ELSE remoteSession
  /\ session' = IF ok THEN session ELSE Null
  /\ localSession' = IF ok THEN localSession ELSE Null
  /\ op' = NoOp
  /\ UNCHANGED <<now, ticks, defaultRate, pantryId, sessionReads,
                 logVars, countVars, pure>>

\* a POST of updateRemoteSession reaches the store (ok) or fails
SessionWriteEnds(w, ok) ==
  /\ w \in sessionWrites
  /\ sessionWrites' = sessionWrites \ {w}
  /\ remoteSession' = IF ok THEN Some(w) ELSE remoteSession
  /\ op' = NoOp
  /\ UNCHANGED <<now, ticks, defaultRate, pantryId, session, localSession, sessionReads,
                 logVars, countVars, pure>>

LogWriteEnds(w, ok) ==
  /\ w \in logWrites
  /\ logWrites' = logWrites \ {w}
  /\ remoteLogs' = IF ok THEN Some(w) ELSE remoteLogs
  /\ op' = NoOp
  /\ UNCHANGED <<now, ticks, defaultRate, pantryId, sessionVars, logs, localLogs,
                 logReads, nextId, countVars, pure>>

\* the store answers the GET of loadSession
LoadAnswered(ok) ==
  /\ LoadRead \in sessionReads
  /\ sessionReads' = (sessionReads \ {LoadRead}) \cup
       {[kind |-> "load", phase |-> "answered",
         result |-> getRemoteSession(remoteSession, ok)]}
  /\ op' = NoOp
  /\ UNCHANGED <<now, ticks, defaultRate, pantryId, session, localSession, remoteSession,
                 sessionWrites, logVars, countVars, pure>>

\* LoadDelivered that falls back to the local cache when the remote is empty
LoadDeliveredLocalFallback(r) ==
  /\ r \in sessionReads /\ r.kind = "load" /\ r.phase = "answered"
  /\ sessionReads' = sessionReads \ {r}
  /\ IF r.result # Null /\ r.result[1].startTime > 0
       THEN session' = r.result /\ localSession' = r.result
       ELSE session' = localSession /\ localSession' = localSession
  /\ op' = NoOp
  /\ UNCHANGED <<now, ticks, defaultRate, pantryId, remoteSession, sessionWrites,
                 logVars, countVars, pure>>

\* loadSession after its await, remote mode
LoadDelivered(r) ==
  /\ r \in sessionReads /\ r.kind = "load" /\ r.phase = "answered"
  /\ sessionReads' = sessionReads \ {r}
  /\ IF r.result # Null /\ r.result[1].startTime > 0
       THEN session' = r.result /\ localSession' = r.result
       ELSE session' = Null /\ localSession' = Null
  /\ op' = NoOp
  /\ UNCHANGED <<now, ticks, defaultRate, pantryId, remoteSession, sessionWrites,
                 logVars, countVars, pure>>

\* a tick of the poll interval: the GET is sent and answered
PollAnswered(ok) ==
  /\ pantryId # ""
  /\ polls < MaxPolls
  /\ \A r \in sessionReads : r.kind # "poll"
  /\ polls' = polls + 1
  /\ sessionReads' = sessionReads \cup
       {[kind |-> "poll", phase |-> "answered",
         result |-> getRemoteSession(remoteSession, ok)]}
  /\ op' = NoOp
  /\ UNCHANGED <<now, ticks, defaultRate, pantryId, session, localSession, remoteSession,
                 sessionWrites, logVars, otherWrites, connects, inflightCap, pure>>

\* pollUpdate that adopts every present remote session
pollUpdateAlways(prev, remote) ==
  IF remote # Null /\ remote[1].startTime > 0 THEN remote ELSE Null

\* the functional update of the poll callback
pollUpdate(prev, remote) ==
  IF remote # Null /\ remote[1].startTime > 0
    THEN IF prev = Null
            \/ prev[1].status # remote[1].status
            \/ prev[1].accumulatedBreakTime # remote[1].accumulatedBreakTime
           THEN remote
           ELSE prev
    ELSE Null

PollDelivered(r) ==
  /\ r \in sessionReads /\ r.kind = "poll"
  /\ sessionReads' = sessionReads \ {r}
  /\ session' = pollUpdate(session, r.result)
  /\ op' = NoOp
  /\ UNCHANGED <<now, ticks, defaultRate, pantryId, localSession, remoteSession,
                 sessionWrites, logVars, countVars, pure>>

\* the store answers the GET of syncData
SyncAnswered(r, ok) ==
  /\ r \in logReads /\ r.phase = "sent"
  /\ logReads' = (logReads \ {r}) \cup
       {[r EXCEPT !.phase = "answered", !.result = getRemoteLogs(remoteLogs, ok)]}
  /\ op' = NoOp
  /\ UNCHANGED <<now, ticks, defaultRate, pantryId, sessionVars, logs, localLogs,
                 remoteLogs, logWrites, nextId, countVars, pure>>

\* syncData after its await
SyncDelivered(r) ==
  /\ r \in logReads /\ r.phase = "answered"
  /\ logReads' = logReads \ {r}
  /\ IF Len(r.result) > 0
       THEN /\ logs' = sortLogs(r.result)
            /\ localLogs' = sortLogs(r.result)
            /\ UNCHANGED logWrites
       ELSE IF Len(r.closureLogs) > 0
         THEN /\ logWrites' = logWrites \cup {r.closureLogs}
              /\ UNCHANGED <<logs, localLogs>>
         ELSE UNCHANGED <<logs, localLogs, logWrites>>
  /\ op' = NoOp
  /\ UNCHANGED <<now, ticks, defaultRate, pantryId, sessionVars, remoteLogs, nextId,
                 countVars, pure>>

\* what another device, its clock ahead by skew, may leave in the basket
otherSessions(t) ==
  {newSessionAt(t), startBreakOf(newSessionAt(t), t)}

OtherDeviceWrites(body) ==
  /\ otherWrites < MaxOtherWrites
  /\ otherWrites' = otherWrites + 1
  /\ remoteSession' = Some(body)
  /\ op' = NoOp
  /\ UNCHANGED <<now, ticks, defaultRate, pantryId, session, localSession,
                 sessionWrites, sessionReads, logVars, polls, connects, inflightCap,
                 pure>>

(***************************************************************************)
(* The program.                                                            *)
(***************************************************************************)
\* App and ClockInTimer after construction with the remote binding `binding`:
\* the effects on pantryId have sent the reads of loadSession and syncData
Device(binding) ==
  /\ now = InitialNow
  /\ ticks = 0
  /\ defaultRate = InitialRate
  /\ pantryId = binding
  /\ session = Null
  /\ localSession = Null
  /\ remoteSession = Null
  /\ sessionWrites = {}
  /\ sessionReads = IF binding # "" THEN {LoadRead} ELSE {}
  /\ logs = <<>>
  /\ localLogs = <<>>
  /\ remoteLogs = Null
  /\ logWrites = {}
  /\ logReads = IF binding # "" THEN {SyncRead(<<>>)} ELSE {}
  /\ nextId = 1
  /\ otherWrites = 0
  /\ polls = 0
  /\ connects = 0
  /\ inflightCap = MaxInflight
  /\ op = NoOp

\* App.tsx:33-37: pantryId is the saved id or DEFAULT_PANTRY_ID
Init == Device(DEFAULT_PANTRY_ID) /\ pure = IdlePure

Next ==
  \/ handleClockIn
  \/ handleStartBreak
  \/ handleEndBreak
  \/ \E confirm \in BOOLEAN : handleClockOut(confirm)
  \/ \E f \in FormFills, hourlyRate \in FormRates : handleManualSubmit(f, hourlyRate)
  \/ \E id \in 1..MaxLogs : handleDeleteLog(id)
  \/ \E rate \in RateInputs : setDefaultRate(rate)
  \/ \E valid \in BOOLEAN : handleConnectPantry(valid)
  \/ \E confirm \in BOOLEAN : handleDisconnect(confirm)
  \/ \E d \in TickSteps : Tick(d)
  \/ \E w \in sessionWrites, ok \in BOOLEAN : SessionWriteEnds(w, ok)
  \/ \E w \in logWrites, ok \in BOOLEAN : LogWriteEnds(w, ok)
  \/ \E ok \in BOOLEAN : LoadAnswered(ok)
  \/ \E r \in sessionReads : LoadDelivered(r)
  \/ \E ok \in BOOLEAN : PollAnswered(ok)
  \/ \E r \in sessionReads : PollDelivered(r)
  \/ \E r \in logReads, ok \in BOOLEAN : SyncAnswered(r, ok)
  \/ \E r \in logReads : SyncDelivered(r)
  \/ \E skew \in OtherClockSkews :
       \E body \in otherSessions(now + skew) \cup {ClearedMarker} :
         OtherDeviceWrites(body)

\* the whole program
Spec == Init /\ [][Next]_vars

(***************************************************************************)
(* The device in local mode: the state Spec reaches when the user          *)
(* disconnects and the two reads of the construction come back empty.      *)
(* The timer, the manual form, the log list and the rate setting.          *)
(***************************************************************************)
InitLocal == Device("") /\ pure = IdlePure

NextLocal ==
  \/ handleClockIn
  \/ handleStartBreak
  \/ handleEndBreak
  \/ \E confirm \in BOOLEAN : handleClockOut(confirm)
  \/ \E f \in FormFills, hourlyRate \in FormRates : handleManualSubmit(f, hourlyRate)
  \/ \E id \in 1..MaxLogs : handleDeleteLog(id)
  \/ \E rate \in RateInputs : setDefaultRate(rate)
  \/ \E d \in TickSteps : Tick(d)

SpecLocal == InitLocal /\ [][NextLocal]_vars

(***************************************************************************)
(* The device in local mode, restarted with a log collection in its local  *)
(* storage: App.tsx:44-51 reads it back into the collection.               *)
(***************************************************************************)
\* a record entered by hand in an earlier run
SavedLog ==
  manualLog(DateStr(0), TimeStr(9, 0), TimeStr(18, 0), <<>>, <<>>, 100, 0)

InitLocalSaved ==
  /\ now = InitialNow
  /\ ticks = 0
  /\ defaultRate = InitialRate
  /\ pantryId = ""
  /\ session = Null
  /\ localSession = Null
  /\ remoteSession = Null
  /\ sessionWrites = {}
  /\ sessionReads = {}
  /\ logs = <<SavedLog>>
  /\ localLogs = <<SavedLog>>
  /\ remoteLogs = Null
  /\ logWrites = {}
  /\ logReads = {}
  /\ nextId = 1
  /\ otherWrites = 0
  /\ polls = 0
  /\ connects = 0
  /\ inflightCap = MaxInflight
  /\ op = NoOp
  /\ pure = IdlePure

SpecLocalSaved == InitLocalSaved /\ [][NextLocal]_vars

(***************************************************************************)
(* The timer on a device bound to the remote store, the session basket's   *)
(* traffic (the read of loadSession, the writes) and another device.       *)
(***************************************************************************)
NextRemote ==
  \/ handleClockIn
  \/ handleStartBreak
  \/ handleEndBreak
  \/ \E confirm \in BOOLEAN : handleClockOut(confirm)
  \/ \E d \in TickSteps : Tick(d)
  \/ \E w \in sessionWrites, ok \in BOOLEAN : SessionWriteEnds(w, ok)
  \/ \E w \in logWrites, ok \in BOOLEAN : LogWriteEnds(w, ok)
  \/ \E ok \in BOOLEAN : LoadAnswered(ok)
  \/ \E r \in sessionReads : LoadDelivered(r)
  \/ \E skew \in OtherClockSkews :
       \E body \in otherSessions(now + skew) \cup {ClearedMarker} :
         OtherDeviceWrites(body)

SpecRemote == Init /\ [][NextRemote]_vars

(***************************************************************************)
(* The log collection of a device bound to the remote store: the device    *)
(* starts with the collection of its local storage, empty or not, and the  *)
(* logs basket as another device left it: never written, holding an empty  *)
(* list, or holding a record.  The manual form, the log list, the binding  *)
(* and syncData.                                                           *)
(***************************************************************************)
\* a record another device entered by hand
RemoteSavedLog ==
  manualLog(DateStr(1), TimeStr(9, 0), TimeStr(9, 45), <<>>, <<>>, 100, 0 - 1)

InitSync ==
  /\ now = InitialNow
  /\ ticks = 0
  /\ defaultRate = InitialRate
  /\ pantryId = DEFAULT_PANTRY_ID
  /\ session = Null
  /\ localSession = Null
  /\ remoteSession = Null
  /\ sessionWrites = {}
  /\ sessionReads = {LoadRead}
  /\ \E saved \in {<<>>, <<SavedLog>>} :
       /\ logs = saved
       /\ localLogs = saved
       /\ logReads = {SyncRead(saved)}
  /\ remoteLogs \in {Null, Some(<<>>), Some(<<RemoteSavedLog>>)}
  /\ logWrites = {}
  /\ nextId = 1
  /\ otherWrites = 0
  /\ polls = 0
  /\ connects = 0
  /\ inflightCap = MaxInflight
  /\ op = NoOp
  /\ pure = IdlePure

NextSync ==
  \/ \E f \in FormFills, hourlyRate \in FormRates : handleManualSubmit(f, hourlyRate)
  \/ \E id \in 1..MaxLogs : handleDeleteLog(id)
  \/ \E valid \in BOOLEAN : handleConnectPantry(valid)
  \/ \E confirm \in BOOLEAN : handleDisconnect(confirm)
  \/ \E w \in logWrites, ok \in BOOLEAN : LogWriteEnds(w, ok)
  \/ \E r \in logReads, ok \in BOOLEAN : SyncAnswered(r, ok)
  \/ \E r \in logReads : SyncDelivered(r)

SpecSync == InitSync /\ [][NextSync]_vars

(***************************************************************************)
(* The timer on a bound device while the remote store cannot be reached:   *)
(* every GET and every POST fails (fetch throws or the response is not OK).*)
(***************************************************************************)
NextUnreachable ==
  \/ handleClockIn
  \/ handleStartBreak
  \/ handleEndBreak
  \/ \E confirm \in BOOLEAN : handleClockOut(confirm)
  \/ \E f \in FormFills, hourlyRate \in FormRates : handleManualSubmit(f, hourlyRate)
  \/ \E id \in 1..MaxLogs : handleDeleteLog(id)
  \/ \E d \in TickSteps : Tick(d)
  \/ \E w \in sessionWrites : SessionWriteEnds(w, FALSE)
  \/ \E w \in logWrites : LogWriteEnds(w, FALSE)
  \/ LoadAnswered(FALSE)
  \/ \E r \in sessionReads : LoadDelivered(r)
  \/ PollAnswered(FALSE)
  \/ \E r \in sessionReads : PollDelivered(r)

SpecUnreachable == Init /\ [][NextUnreachable]_vars

(***************************************************************************)
(* The session of a bound device under the poll interval, with another     *)
(* device writing the session basket: clock-in and breaks, the clock, the  *)
(* remote writes, loadSession and the poll.                                *)
(***************************************************************************)
NextPoll ==
  \/ handleClockIn
  \/ handleStartBreak
  \/ handleEndBreak
  \/ \E d \in TickSteps : Tick(d)
  \/ \E w \in sessionWrites, ok \in BOOLEAN : SessionWriteEnds(w, ok)
  \/ \E ok \in BOOLEAN : LoadAnswered(ok)
  \/ \E r \in sessionReads : LoadDelivered(r)
  \/ \E ok \in BOOLEAN : PollAnswered(ok)
  \/ \E r \in sessionReads : PollDelivered(r)
  \/ \E skew \in OtherClockSkews :
       \E body \in otherSessions(now + skew) \cup {ClearedMarker} :
         OtherDeviceWrites(body)

SpecPoll == Init /\ [][NextPoll]_vars

(***************************************************************************)
(* The binding: a bound device that the user disconnects and connects      *)
(* again, with another device writing the session basket.  Clock-in, the   *)
(* manual form, the log list, the remote reads and writes, the poll.       *)
(***************************************************************************)
NextBinding ==
  \/ handleClockIn
  \/ \E f \in FormFills, hourlyRate \in FormRates : handleManualSubmit(f, hourlyRate)
  \/ \E id \in 1..MaxLogs : handleDeleteLog(id)
  \/ \E valid \in BOOLEAN : handleConnectPantry(valid)
  \/ \E confirm \in BOOLEAN : handleDisconnect(confirm)
  \/ \E w \in sessionWrites, ok \in BOOLEAN : SessionWriteEnds(w, ok)
  \/ \E w \in logWrites, ok \in BOOLEAN : LogWriteEnds(w, ok)
  \/ \E ok \in BOOLEAN : LoadAnswered(ok)
  \/ \E r \in sessionReads : LoadDelivered(r)
  \/ \E ok \in BOOLEAN : PollAnswered(ok)
  \/ \E r \in sessionReads : PollDelivered(r)
  \/ \E body \in otherSessions(now) \cup {ClearedMarker} : OtherDeviceWrites(body)

SpecBinding == Init /\ [][NextBinding]_vars

(***************************************************************************)
(* The start of the application over what its local storage holds: no      *)
(* session, a session, or a text that does not parse; no logs, a           *)
(* collection, or a text that does not parse.  The effects of the first    *)
(* commit run in one step, before any handler can.                         *)
(***************************************************************************)
\* a session cached by an earlier run, half an hour before the start
SavedSession == newSessionAt(InitialNow - 30 * MsPerMinute)

Constructed == Op("construct", "done", Null, NoPay)

InitMount ==
  /\ now = InitialNow
  /\ ticks = 0
  /\ defaultRate = InitialRate
  /\ pantryId = ""
  /\ session = Null
  /\ localSession \in {Null, Some(SavedSession), CorruptJSON}
  /\ remoteSession = Null
  /\ sessionWrites = {}
  /\ sessionReads = {}
  /\ logs = <<>>
  /\ localLogs \in {<<>>, <<SavedLog>>, CorruptJSON}
  /\ remoteLogs = Null
  /\ logWrites = {}
  /\ logReads = {}
  /\ nextId = 1
  /\ otherWrites = 0
  /\ polls = 0
  /\ connects = 0
  /\ inflightCap = MaxInflight
  /\ op = Constructed
  /\ pure = IdlePure

\* loadSession with pantryId '' (ClockInTimer.tsx:40-45): JSON.parse throws
\* inside the async function, the promise is rejected and nothing is set
mountedSession ==
  IF localSession # Null /\ JSONParses(localSession) THEN localSession ELSE session

\* App.tsx:44-51: the SyntaxError is caught and the collection stays []
mountedLogs ==
  IF localLogs # <<>> /\ JSONParses(localLogs) THEN localLogs ELSE logs

\* mountedLogs without the try/catch: the effect throws
MountUncaught ==
  /\ op = Constructed
  /\ session' = mountedSession
  /\ IF localLogs # <<>> /\ ~JSONParses(localLogs)
       THEN /\ op' = Op("mount", "crashed", Null, NoPay)
            /\ UNCHANGED <<logs, pantryId, sessionReads, logReads>>
       ELSE /\ logs' = mountedLogs
            /\ pantryId' = DEFAULT_PANTRY_ID
            /\ sessionReads' = {LoadRead}
            /\ logReads' = {SyncRead(mountedLogs)}
            /\ op' = Op("mount", "done", Null, NoPay)
  /\ UNCHANGED <<now, ticks, defaultRate, localSession, remoteSession, sessionWrites,
                 localLogs, remoteLogs, logWrites, nextId, countVars, pure>>

\* the effects of the first commit: loadSession in local mode, the initial
\* load of App, then, pantryId being set, loadSession and syncData again
Mount ==
  /\ op = Constructed
  /\ session' = mountedSession
  /\ logs' = mountedLogs
  /\ pantryId' = DEFAULT_PANTRY_ID
  /\ sessionReads' = {LoadRead}
  /\ logReads' = {SyncRead(mountedLogs)}
  /\ op' = Op("mount", "done", Null, NoPay)
  /\ UNCHANGED <<now, ticks, defaultRate, localSession, remoteSession, sessionWrites,
                 localLogs, remoteLogs, logWrites, nextId, countVars, pure>>

Mounted == op # Constructed /\ op.outcome # "crashed"

NextMount ==
  \/ Mount
  \/ Mounted /\ handleClockIn
  \/ Mounted /\ \E f \in FormFills, hourlyRate \in FormRates :
                   handleManualSubmit(f, hourlyRate)
  \/ Mounted /\ \E valid \in BOOLEAN : handleConnectPantry(valid)
  \/ Mounted /\ \E confirm \in BOOLEAN : handleDisconnect(confirm)
  \/ Mounted /\ \E w \in sessionWrites, ok \in BOOLEAN : SessionWriteEnds(w, ok)
  \/ Mounted /\ \E w \in logWrites, ok \in BOOLEAN : LogWriteEnds(w, ok)
  \/ Mounted /\ \E ok \in BOOLEAN : LoadAnswered(ok)
  \/ Mounted /\ \E r \in sessionReads : LoadDelivered(r)
  \/ Mounted /\ \E r \in logReads, ok \in BOOLEAN : SyncAnswered(r, ok)
  \/ Mounted /\ \E r \in logReads : SyncDelivered(r)

SpecMount == InitMount /\ [][NextMount]_vars

(***************************************************************************)
(* The session basket written by something that is not this program: a     *)
(* payload with a positive startTime whose status is missing or is not one *)
(* of the two of ActiveSession.  The session handlers, loadSession and the *)
(* poll.                                                                   *)
(***************************************************************************)
\* JSON bodies with startTime t: status 'idle', and no status at all
foreignPayloads(t) ==
  {[status |-> st, startTime |-> t, breakStartTime |-> Null,
    accumulatedBreakTime |-> 0] : st \in {"idle", "undefined"}}

NextPayload ==
  \/ handleClockIn
  \/ handleStartBreak
  \/ handleEndBreak
  \/ \E d \in TickSteps : Tick(d)
  \/ \E w \in sessionWrites, ok \in BOOLEAN : SessionWriteEnds(w, ok)
  \/ \E ok \in BOOLEAN : LoadAnswered(ok)
  \/ \E r \in sessionReads : LoadDelivered(r)
  \/ \E ok \in BOOLEAN : PollAnswered(ok)
  \/ \E r \in sessionReads : PollDelivered(r)
  \/ \E body \in foreignPayloads(now) \cup {newSessionAt(now)} : OtherDeviceWrites(body)

SpecPayload == Init /\ [][NextPayload]_vars

(***************************************************************************)
(* One bound device and no other writer of the store: clock-in and         *)
(* clock-out, the remote writes, loadSession and the poll.                 *)
(***************************************************************************)
NextSolo ==
  \/ handleClockIn
  \/ \E confirm \in BOOLEAN : handleClockOut(confirm)
  \/ \E w \in sessionWrites, ok \in BOOLEAN : SessionWriteEnds(w, ok)
  \/ \E w \in logWrites, ok \in BOOLEAN : LogWriteEnds(w, ok)
  \/ \E ok \in BOOLEAN : LoadAnswered(ok)
  \/ \E r \in sessionReads : LoadDelivered(r)
  \/ \E ok \in BOOLEAN : PollAnswered(ok)
  \/ \E r \in sessionReads : PollDelivered(r)

SpecSolo == Init /\ [][NextSolo]_vars

(***************************************************************************)
(* One bound device whose loads have finished and whose POSTs overlap:     *)
(* saveSession does not await the POST of the transition before, so the    *)
(* network holds more than one and delivers them in any order.             *)
(***************************************************************************)
InitOverlap ==
  /\ now = InitialNow
  /\ ticks = 0
  /\ defaultRate = InitialRate
  /\ pantryId = DEFAULT_PANTRY_ID
  /\ session = Null
  /\ localSession = Null
  /\ remoteSession = Null
  /\ sessionWrites = {}
  /\ sessionReads = {}
  /\ logs = <<>>
  /\ localLogs = <<>>
  /\ remoteLogs = Null
  /\ logWrites = {}
  /\ logReads = {}
  /\ nextId = 1
  /\ otherWrites = 0
  /\ polls = 0
  /\ connects = 0
  /\ inflightCap = MaxInflight + 1
  /\ op = NoOp
  /\ pure = IdlePure

NextOverlap ==
  \/ handleClockIn
  \/ handleStartBreak
  \/ handleEndBreak
  \/ \E confirm \in BOOLEAN : handleClockOut(confirm)
  \/ \E d \in TickSteps : Tick(d)
  \/ \E w \in sessionWrites : SessionWriteEnds(w, TRUE)
  \/ \E w \in logWrites : LogWriteEnds(w, TRUE)

SpecOverlap == InitOverlap /\ [][NextOverlap]_vars

(***************************************************************************)
(* Calls of the pure functions of utils.ts.                                *)
(***************************************************************************)
MaxMinutes == 720

PayMinutes == 0..MaxMinutes

PayRates == {0, 100, 183, 220}

ClockHours == {0, 6, 9, 18, 22, 23}

ClockMinutes == {0, 30, 59}

\* what a time input holds: nothing, or HH:mm
ClockTimes == {<<>>} \cup {TimeStr(h, m) : h \in ClockHours, m \in ClockMinutes}

PureCalls ==
  {[IdlePure EXCEPT !.fn = "calculatePayBreakdown", !.totalMinutes = m, !.hourlyRate = r] :
     m \in PayMinutes, r \in PayRates}
  \cup
  {[IdlePure EXCEPT !.fn = "calculateDurationMinutes", !.start = s, !.end = e] :
     s \in ClockTimes, e \in ClockTimes}

InitPure == Device(DEFAULT_PANTRY_ID) /\ pure \in PureCalls

callCalculatePayBreakdown ==
  /\ pure.fn = "calculatePayBreakdown" /\ ~pure.done
  /\ pure' = [pure EXCEPT !.done = TRUE,
                          !.breakdown = calculatePayBreakdown(pure.totalMinutes,
                                                              pure.hourlyRate)]
  /\ UNCHANGED <<now, ticks, defaultRate, pantryId, sessionVars, logVars, countVars, op>>

callCalculateDurationMinutes ==
  /\ pure.fn = "calculateDurationMinutes" /\ ~pure.done
  /\ pure' = [pure EXCEPT !.done = TRUE,
                          !.minutes = calculateDurationMinutes(pure.start, pure.end)]
  /\ UNCHANGED <<now, ticks, defaultRate, pantryId, sessionVars, logVars, countVars, op>>

NextPure ==
  \/ callCalculatePayBreakdown
  \/ callCalculateDurationMinutes

SpecPure == InitPure /\ [][NextPure]_vars

(***************************************************************************)
(* The statements.                                                         *)
(***************************************************************************)
\* the call of calculatePayBreakdown under check has returned
PayReturned == pure.fn = "calculatePayBreakdown" /\ pure.done

\* the call of calculateDurationMinutes under check has returned
DurationReturned == pure.fn = "calculateDurationMinutes" /\ pure.done

\* C1: for totalMinutes >= 0 and hourlyRate >= 0 the three tiers returned by
\* calculatePayBreakdown sum to totalMinutes, with 0 <= regularMinutes <= 480,
\* 0 <= overtimeLevel1Minutes <= 120 and overtimeLevel2Minutes >= 0.
C1_TiersSumWithinCaps ==
  (PayReturned /\ pure.totalMinutes >= 0 /\ pure.hourlyRate >= 0) =>
    LET b == pure.breakdown
    IN /\ b.regularMinutes + b.overtimeLevel1Minutes + b.overtimeLevel2Minutes
            = pure.totalMinutes
       /\ 0 <= b.regularMinutes /\ b.regularMinutes <= 480
       /\ 0 <= b.overtimeLevel1Minutes /\ b.overtimeLevel1Minutes <= 120
       /\ 0 <= b.overtimeLevel2Minutes

\* a call with all three tiers in use
C1_Witness ==
  /\ PayReturned
  /\ pure.totalMinutes = 700
  /\ pure.breakdown.regularMinutes = 480
  /\ pure.breakdown.overtimeLevel1Minutes = 120
  /\ pure.breakdown.overtimeLevel2Minutes = 100

\* C2: the tiers are filled in order: regularMinutes = min(totalMinutes, 480),
\* overtimeLevel1Minutes = min(totalMinutes - regularMinutes, 120),
\* overtimeLevel2Minutes = the rest; so overtimeLevel1Minutes > 0 only with
\* regularMinutes = 480, and overtimeLevel2Minutes > 0 only with
\* overtimeLevel1Minutes = 120.
C2_TiersFilledInOrder ==
  PayReturned =>
    LET b == pure.breakdown
        m == pure.totalMinutes
    IN /\ b.regularMinutes = (IF m < 480 THEN m ELSE 480)
       /\ b.overtimeLevel1Minutes
            = (IF m - b.regularMinutes < 120 THEN m - b.regularMinutes ELSE 120)
       /\ b.overtimeLevel2Minutes = m - b.regularMinutes - b.overtimeLevel1Minutes
       /\ (b.overtimeLevel1Minutes > 0 => b.regularMinutes = 480)
       /\ (b.overtimeLevel2Minutes > 0 => b.overtimeLevel1Minutes = 120)

\* a call that ends inside the first overtime tier
C2_Witness ==
  /\ PayReturned
  /\ pure.totalMinutes = 540
  /\ pure.breakdown.regularMinutes = 480
  /\ pure.breakdown.overtimeLevel1Minutes = 60
  /\ pure.breakdown.overtimeLevel2Minutes = 0

\* C3: totalPay is the one rounding, to a nearest integer, of the summed
\* amount rate * (100 * regular + 134 * ot1 + 167 * ot2) / 6000, and not a sum
\* of roundings per tier; (480, 100) gives 800, (600, 100) gives 1068 and
\* (700, 100) gives 1346.
C3_SingleRounding ==
  PayReturned =>
    LET b == pure.breakdown
        sumTimes6000 == pure.hourlyRate * (100 * b.regularMinutes
                                           + 134 * b.overtimeLevel1Minutes
                                           + 167 * b.overtimeLevel2Minutes)
    IN /\ 6000 * b.totalPay - sumTimes6000 <= 3000
       /\ sumTimes6000 - 6000 * b.totalPay <= 3000
       /\ (pure.totalMinutes = 480 /\ pure.hourlyRate = 100 => b.totalPay = 800)
       /\ (pure.totalMinutes = 600 /\ pure.hourlyRate = 100 => b.totalPay = 1068)
       /\ (pure.totalMinutes = 700 /\ pure.hourlyRate = 100 => b.totalPay = 1346)

\* 1464 + 490.44 + 5.0935 is 1960 rounded once, and 1959 rounded tier by tier
C3_Witness ==
  /\ PayReturned
  /\ pure.totalMinutes = 601
  /\ pure.hourlyRate = 183
  /\ pure.breakdown.totalPay = 1960

\* the logs the core has produced and that are kept in the collection
ProducedLogs == {logs[i] : i \in 1..Len(logs)}

\* C4: in every reachable state each WorkLog in the collection, created by
\* clock-out or by manual submit, has totalMinutes = regularMinutes +
\* overtimeLevel1Minutes + overtimeLevel2Minutes, and its totalPay is the pay
\* calculatePayBreakdown computes from the log's own totalMinutes and
\* hourlyRate.
C4_LogsConsistent ==
  \A log \in ProducedLogs :
    /\ log.totalMinutes
         = log.regularMinutes + log.overtimeLevel1Minutes + log.overtimeLevel2Minutes
    /\ log.totalPay = calculatePayBreakdown(log.totalMinutes, log.hourlyRate).totalPay

\* a timer log of 539 raw minutes, kept as 510 with 30 minutes of overtime
C4_Witness ==
  \E log \in ProducedLogs :
    /\ log.note = TIMER_NOTE
    /\ log.totalMinutes = 510
    /\ log.overtimeLevel1Minutes = 30
    /\ op.name = "handleClockOut"
    /\ (op.at - op.before[1].startTime) \div 60000 = 539

\* C5: in every reachable state each WorkLog produced by the core has
\* breakMinutes >= 0, totalMinutes >= 0 and every tier >= 0, also after the
\* zero-duration warning was confirmed and for a session adopted from the
\* remote store.
C5_LogsNonNegative ==
  \A log \in ProducedLogs :
    /\ log.breakMinutes >= 0
    /\ log.totalMinutes >= 0
    /\ log.regularMinutes >= 0
    /\ log.overtimeLevel1Minutes >= 0
    /\ log.overtimeLevel2Minutes >= 0

\* C6: every call of calculatePayBreakdown by the clock-out path and by the
\* manual submit path passes totalMinutes >= 0 and hourlyRate >= 0.
C6_PayArgumentsNonNegative ==
  (op.name \in {"handleClockOut", "handleManualSubmit"} /\ op.pay # NoPay) =>
    /\ op.pay[1].totalMinutes >= 0
    /\ op.pay[1].hourlyRate >= 0

\* the minute of the day an HH:mm input names
MinuteOfDay(t) ==
  (DigitVal(t[1]) * 10 + DigitVal(t[2])) * 60 + DigitVal(t[4]) * 10 + DigitVal(t[5])

\* C7: for valid HH:mm inputs calculateDurationMinutes is (end - start) modulo
\* 1440: end - start when end >= start, end - start + 1440 when end < start,
\* always in 0..1439; 09:00-18:00 gives 540 and 22:00-06:00 gives 480; it is 0
\* when either input is empty.
C7_DurationModuloDay ==
  DurationReturned =>
    IF pure.start = <<>> \/ pure.end = <<>>
      THEN pure.minutes = 0
      ELSE LET s == MinuteOfDay(pure.start)
               e == MinuteOfDay(pure.end)
           IN /\ pure.minutes = (e - s) % 1440
              /\ (e >= s => pure.minutes = e - s)
              /\ (e < s => pure.minutes = e - s + 1440)
              /\ 0 <= pure.minutes /\ pure.minutes <= 1439
              /\ (pure.start = TimeStr(9, 0) /\ pure.end = TimeStr(18, 0)
                    => pure.minutes = 540)
              /\ (pure.start = TimeStr(22, 0) /\ pure.end = TimeStr(6, 0)
                    => pure.minutes = 480)

\* the overnight shift 22:00-06:00
C7_Witness ==
  /\ DurationReturned
  /\ pure.start = <<"2", "2", ":", "0", "0">>
  /\ pure.end = <<"0", "6", ":", "0", "0">>
  /\ pure.minutes = 480

\* a clock-out has just produced a log
ClockedOut == op.name = "handleClockOut" /\ op.outcome = "done"

\* floor((clockOutInstant - startTime - break time) / 60000) of the session the
\* clock-out found, a break in progress closed at the clock-out instant
RawWorkMinutesAtClockOut ==
  LET s == op.before[1]
      breakTime == IF s.status = "break" /\ s.breakStartTime # Null
                     THEN s.accumulatedBreakTime + (op.at - s.breakStartTime[1])
                     ELSE s.accumulatedBreakTime
  IN (op.at - s.startTime - breakTime) \div 60000

\* C8: every timer-generated WorkLog has totalMinutes = rawWorkMinutes rounded
\* down to a multiple of 30: a multiple of 30 with
\* totalMinutes <= rawWorkMinutes < totalMinutes + 30.
C8_TimerLogRoundedDown ==
  ClockedOut =>
    LET total == op.log[1].totalMinutes
    IN /\ op.log[1] \in ProducedLogs
       /\ total % 30 = 0
       /\ total <= RawWorkMinutesAtClockOut
       /\ RawWorkMinutesAtClockOut < total + 30

\* 29 raw minutes behind a closed break, kept as 0
C8_Witness ==
  /\ ClockedOut
  /\ op.before[1].accumulatedBreakTime > 0
  /\ RawWorkMinutesAtClockOut = 29
  /\ op.log[1].totalMinutes = 0

\* C9: clockIn while a session exists is a no-op: the in-memory session, the
\* locally cached session and the remote session are unchanged and no remote
\* write is issued.
C9_ClockInWithSessionNoOp ==
  [][(handleClockIn /\ session # Null)
       => UNCHANGED <<session, localSession, remoteSession, sessionWrites>>]_vars

\* a second clockIn, during a break and after the clock has advanced
C9_Witness ==
  /\ op.name = "handleClockIn"
  /\ op.outcome = "rejected"
  /\ session # Null
  /\ session[1].status = "break"
  /\ session[1].startTime < now

\* C10: clockIn from NONE creates the session {working, startTime = now,
\* breakStartTime absent, accumulatedBreakTime = 0} and stores it in the
\* in-memory state and in the local cache.
C10_ClockInCreatesSession ==
  [][(handleClockIn /\ session = Null)
       => /\ session' = Some([status |-> "working", startTime |-> now,
                              breakStartTime |-> Null, accumulatedBreakTime |-> 0])
          /\ localSession' = session']_vars

\* a clockIn from NONE after the clock has advanced
C10_Witness ==
  /\ op.name = "handleClockIn"
  /\ op.outcome = "done"
  /\ session # Null
  /\ session[1].startTime = now
  /\ now > InitialNow
  /\ localSession = session

\* C11: startBreak takes effect only when the session status is working
\* (then status = break and breakStartTime = now, startTime and
\* accumulatedBreakTime unchanged); with no session or with status = break
\* it leaves the session unchanged and does not reset the breakStartTime of
\* a break already in progress.
C11_StartBreakOnlyFromWorking ==
  [][handleStartBreak
       => IF session # Null /\ session[1].status = "working"
            THEN /\ session' # Null
                 /\ session'[1].status = "break"
                 /\ session'[1].breakStartTime = Some(now)
                 /\ session'[1].startTime = session[1].startTime
                 /\ session'[1].accumulatedBreakTime = session[1].accumulatedBreakTime
            ELSE UNCHANGED <<session, localSession>>]_vars

\* C12: endBreak takes effect only when the session status is break: it sets
\* status = working, breakStartTime absent and accumulatedBreakTime = old
\* accumulatedBreakTime + (now - breakStartTime), startTime unchanged; with
\* no session or with status = working it leaves the session unchanged.
C12_EndBreakOnlyFromBreak ==
  [][handleEndBreak
       => IF session # Null /\ session[1].status = "break"
            THEN /\ session'
                      = Some([status |-> "working",
                              startTime |-> session[1].startTime,
                              breakStartTime |-> Null,
                              accumulatedBreakTime |->
                                session[1].accumulatedBreakTime
                                  + (now - session[1].breakStartTime[1])])
                 /\ localSession' = session'
            ELSE UNCHANGED <<session, localSession>>]_vars

\* a break of positive length has been closed
C12_Witness ==
  /\ op.name = "handleEndBreak"
  /\ op.outcome = "done"
  /\ session # Null
  /\ session[1].status = "working"
  /\ session[1].breakStartTime = Null
  /\ session[1].accumulatedBreakTime > 0

\* C13: clockOut at instant t directly from BREAK produces the same WorkLog
\* (breakMinutes, totalMinutes, tiers, totalPay) as endBreak at t followed
\* by clockOut at t: the break in progress, t - breakStartTime, is added to
\* accumulatedBreakTime before the work and break minutes are computed.
C13_ClockOutFoldsOpenBreak ==
  (ClockedOut /\ op.before[1].status = "break") =>
    LET afterEndBreak == endBreakOf(op.before[1], op.at)
        viaEndBreak == clockOutLog(afterEndBreak, op.at, op.log[1].hourlyRate,
                                   op.log[1].id)
    IN /\ afterEndBreak.accumulatedBreakTime
            = op.before[1].accumulatedBreakTime
                + (op.at - op.before[1].breakStartTime[1])
       /\ op.log[1] = viaEndBreak
       /\ op.log[1] \in ProducedLogs

\* a clock-out during a break of 29 minutes that follows 510 minutes of work
C13_Witness ==
  /\ ClockedOut
  /\ op.before[1].status = "break"
  /\ op.at > op.before[1].breakStartTime[1]
  /\ op.log[1].breakMinutes = 29
  /\ op.log[1].totalMinutes = 510

\* C14: along clockIn, (startBreak, endBreak)*, [startBreak], clockOut the
\* emitted WorkLog has breakMinutes = floor(B / 60000) and totalMinutes =
\* 30 * floor(floor((T - B) / 60000) / 30), T the time from clockIn to
\* clockOut and B the sum of the lengths of all break intervals, the last
\* one closed by the clock-out instant.  Step by step: clockIn starts with
\* no break time, startBreak from working opens an interval at now and keeps
\* the sum of the closed ones, endBreak adds the interval it closes, and
\* clockOut computes the log from that sum plus the interval still open.
C14_AllBreaksCounted ==
  [][/\ (handleClockIn /\ session = Null)
          => /\ session'[1].startTime = now
             /\ session'[1].status = "working"
             /\ session'[1].accumulatedBreakTime = 0
     /\ (handleStartBreak /\ session # Null /\ session[1].status = "working")
          => /\ session'[1].startTime = session[1].startTime
             /\ session'[1].status = "break"
             /\ session'[1].breakStartTime = Some(now)
             /\ session'[1].accumulatedBreakTime = session[1].accumulatedBreakTime
     /\ (handleEndBreak /\ session # Null /\ session[1].status = "break")
          => /\ session'[1].startTime = session[1].startTime
             /\ session'[1].status = "working"
             /\ session'[1].accumulatedBreakTime
                  = session[1].accumulatedBreakTime
                      + (now - session[1].breakStartTime[1])
     /\ (op'.name = "handleClockOut" /\ op'.outcome = "done")
          => LET T == now - session[1].startTime
                 B == session[1].accumulatedBreakTime
                        + (IF session[1].status = "break"
                             THEN now - session[1].breakStartTime[1]
                             ELSE 0)
             IN /\ op'.log[1].breakMinutes = B \div 60000
                /\ op'.log[1].totalMinutes = 30 * (((T - B) \div 60000) \div 30)
                /\ logs' # logs
                /\ op'.log[1] \in {logs'[i] : i \in 1..Len(logs')}]_vars

\* two breaks of 29.5 minutes, the second closed by the clock-out: 59 minutes
C14_Witness ==
  /\ ClockedOut
  /\ op.before[1].status = "break"
  /\ op.before[1].accumulatedBreakTime = 1770 * 1000
  /\ op.at - op.before[1].breakStartTime[1] = 1770 * 1000
  /\ op.log[1].breakMinutes = 59
  /\ op.log[1].totalMinutes = 0

\* the sequence seq without its i-th element
WithoutIndex(seq, i) == SubSeq(seq, 1, i - 1) \o SubSeq(seq, i + 1, Len(seq))

\* C15: a clockOut that commits, from working or break, appends exactly one
\* WorkLog to the log collection and clears the session to NONE in the
\* in-memory state and the local cache; clockOut with no session appends
\* nothing and changes nothing.
C15_ClockOutCommitsOneLog ==
  [][/\ (op'.name = "handleClockOut" /\ op'.outcome = "done")
          => /\ session # Null
             /\ session[1].status \in {"working", "break"}
             /\ Len(logs') = Len(logs) + 1
             /\ \E i \in 1..Len(logs') :
                  /\ logs'[i] = op'.log[1]
                  /\ WithoutIndex(logs', i) = logs
             /\ localLogs' = logs'
             /\ session' = Null
             /\ localSession' = Null
     /\ ((\E confirm \in BOOLEAN : handleClockOut(confirm)) /\ session = Null)
          => UNCHANGED <<session, localSession, remoteSession, sessionWrites,
                         logs, localLogs, remoteLogs, logWrites>>]_vars

\* a clock-out from a break has added its log to a collection that held one
C15_Witness ==
  /\ ClockedOut
  /\ op.before[1].status = "break"
  /\ op.before[1].startTime < op.at
  /\ Len(logs) = 2
  /\ op.log[1] \in ProducedLogs
  /\ SavedLog \in ProducedLogs
  /\ session = Null
  /\ localSession = Null

\* the payable minutes handleClockOut computes for session s at instant t
PayableMinutesAt(s, t) ==
  LET B == s.accumulatedBreakTime
             + (IF s.status = "break" /\ s.breakStartTime # Null
                  THEN t - s.breakStartTime[1] ELSE 0)
  IN 30 * ((((t - s.startTime) - B) \div 60000) \div 30)

\* C16: when clockOut computes actualWorkMinutes <= 0 the outcome depends on
\* the confirmation: confirmed, one WorkLog with that totalMinutes is
\* appended and the session is cleared; declined, no WorkLog is appended and
\* the session, in memory, in the local cache and remote, is left exactly as
\* it was, still active.
C16_ZeroDurationNeedsConfirm ==
  [][\A confirm \in BOOLEAN :
       (/\ op'.name = "handleClockOut"
        /\ session # Null
        /\ PayableMinutesAt(session[1], now) <= 0
        /\ handleClockOut(confirm))
         => IF confirm
              THEN /\ Len(logs') = Len(logs) + 1
                   /\ \E i \in 1..Len(logs') :
                        /\ logs'[i].totalMinutes = PayableMinutesAt(session[1], now)
                        /\ WithoutIndex(logs', i) = logs
                   /\ session' = Null
                   /\ localSession' = Null
              ELSE /\ session' = session
                   /\ session' # Null
                   /\ UNCHANGED <<localSession, remoteSession, sessionWrites,
                                  logs, localLogs, remoteLogs, logWrites>>]_vars

\* the warning declined after 29 worked minutes: the session is still there
C16_Witness ==
  /\ op.name = "handleClockOut"
  /\ op.outcome = "declined"
  /\ session # Null
  /\ session[1].status = "working"
  /\ now - session[1].startTime = 1770 * 1000
  /\ localSession = session
  /\ logs = <<>>

\* the logs of the collection that were entered by hand
ManualLogs == {l \in ProducedLogs : l.note # TIMER_NOTE}

\* max(0, durationMinutes(start, end) - breakMinutes) of a filled form
FormPayableMinutes(f) ==
  LET break == IF f.breakStartTime # <<>> /\ f.breakEndTime # <<>>
                 THEN Max(0, calculateDurationMinutes(f.breakStartTime, f.breakEndTime))
                 ELSE 0
  IN Max(0, calculateDurationMinutes(f.startTime, f.endTime) - break)

\* C17: a manual submit with max(0, durationMinutes(start, end) -
\* breakMinutes) <= 0 is rejected: no WorkLog is appended and the log
\* collection, its local cache and the remote copy are unchanged; hence
\* every manually entered WorkLog of the collection has totalMinutes >= 1.
C17_ManualZeroRejected ==
  /\ [](\A l \in ManualLogs : l.totalMinutes >= 1)
  /\ [][\A f \in FormFills, hourlyRate \in FormRates :
          (handleManualSubmit(f, hourlyRate) /\ FormPayableMinutes(f) <= 0)
            => UNCHANGED <<logs, localLogs, remoteLogs, logWrites, nextId>>]_vars

\* a form whose break covers the whole shift is rejected on a bound device
\* whose collection and remote copy hold a record
C17_Witness ==
  /\ op.name = "handleManualSubmit"
  /\ op.outcome = "rejected"
  /\ op.log[1].breakMinutes = 45
  /\ op.log[1].totalMinutes = 0
  /\ pantryId # ""
  /\ Len(logs) = 1
  /\ localLogs = logs
  /\ remoteLogs = Some(logs)
  /\ logWrites = {}

ManuallySubmitted == op.name = "handleManualSubmit" /\ op.outcome = "done"

\* C18: a manually entered WorkLog has totalMinutes exactly
\* durationMinutes(startTime, endTime) - breakMinutes, with no rounding to
\* 30 minutes (a manual shift of 45 minutes is stored as 45), whereas the
\* timer stores its raw duration rounded down to a multiple of 30.
C18_ManualNotRounded ==
  /\ ManuallySubmitted =>
       /\ op.log[1] \in ProducedLogs
       /\ op.log[1].totalMinutes
            = calculateDurationMinutes(op.log[1].startTime, op.log[1].endTime)
                - op.log[1].breakMinutes
  /\ ClockedOut =>
       /\ op.log[1] \in ProducedLogs
       /\ op.log[1].totalMinutes = 30 * (RawWorkMinutesAtClockOut \div 30)

\* the form filled for 09:00 to 09:45 without a break: 45 minutes are stored
C18_Witness ==
  /\ ManuallySubmitted
  /\ op.log[1] \in ProducedLogs
  /\ op.log[1].breakMinutes = 0
  /\ op.log[1].totalMinutes = 45

\* the session the remote basket holds: absent when the basket was never
\* written or holds the cleared marker
RemoteSessionValue ==
  IF remoteSession # Null /\ remoteSession[1].startTime > 0
    THEN remoteSession
    ELSE Null

\* C19: session load with a remote binding: the read that succeeds carries
\* the remote value; if the remote session is present, the in-memory session
\* and the local cache both become that value, also when local was absent;
\* if the remote session is explicitly cleared, both become absent even if
\* the local cache held a session.
C19_LoadRemoteWins ==
  [][/\ (LoadAnswered(TRUE) /\ pantryId # "")
          => \E r \in sessionReads' :
               r.kind = "load" /\ r.phase = "answered"
                 /\ r.result = RemoteSessionValue
     /\ \A r \in sessionReads :
          LoadDelivered(r)
            => IF r.result # Null
                 THEN session' = r.result /\ localSession' = r.result
                 ELSE session' = Null /\ localSession' = Null]_vars

\* the load found the remote session cleared and wiped the session of a
\* clock-in whose remote write is still in flight
C19_Witness ==
  /\ pantryId # ""
  /\ sessionReads = {}
  /\ remoteSession = Some(ClearedMarker)
  /\ session = Null
  /\ localSession = Null
  /\ \E w \in sessionWrites : w.startTime > 0

\* C20: log-collection load with a remote binding: if the remote collection
\* is non-empty it replaces the local collection and the local cache; if the
\* remote collection is explicitly empty, the local collection is cleared to
\* match, rather than kept or pushed to the remote.
C20_SyncRemoteWins ==
  [][\A r \in logReads :
       SyncDelivered(r)
         => /\ Len(r.result) > 0
                 => /\ {logs'[i] : i \in 1..Len(logs')}
                         = {r.result[i] : i \in 1..Len(r.result)}
                    /\ Len(logs') = Len(r.result)
                    /\ localLogs' = logs'
            /\ (r.result = <<>> /\ remoteLogs = Some(<<>>))
                 => /\ logs' = <<>>
                    /\ localLogs' = <<>>
                    /\ logWrites' = logWrites]_vars

\* C21: a failed remote session read (network error or non-OK response), on
\* the initial load or on a poll tick, leaves the in-memory session and the
\* locally cached session unchanged: an active local session is never
\* cleared because the remote store was unreachable.
C21_FailedReadKeepsSession ==
  [][\A r \in sessionReads :
       (LoadDelivered(r) \/ PollDelivered(r))
         => UNCHANGED <<session, localSession>>]_vars

\* C22: on a poll tick that reads a present remote session, the local
\* session is replaced by the remote one if and only if the local session is
\* absent or its status or accumulatedBreakTime differs from the remote's;
\* otherwise the local session value is left unchanged.  On a poll tick
\* that reads an absent remote session, the local session becomes NONE.
C22_PollAdoptsOnDifference ==
  [][\A r \in sessionReads :
       PollDelivered(r)
         => IF r.result # Null
              THEN IF \/ session = Null
                      \/ session[1].status # r.result[1].status
                      \/ session[1].accumulatedBreakTime
                           # r.result[1].accumulatedBreakTime
                     THEN session' = r.result
                     ELSE session' = session
              ELSE session' = Null]_vars

\* the poll has run and the session kept its own startTime beside a remote
\* session of the same status and break time
C22_Witness ==
  /\ polls = 1
  /\ \A r \in sessionReads : r.kind # "poll"
  /\ session # Null
  /\ remoteSession # Null
  /\ remoteSession[1].status = session[1].status
  /\ remoteSession[1].accumulatedBreakTime = session[1].accumulatedBreakTime
  /\ remoteSession[1].startTime > session[1].startTime

SessionMutated ==
  /\ op.name \in {"handleClockIn", "handleStartBreak", "handleEndBreak", "handleClockOut"}
  /\ op.outcome = "done"

LogsMutated ==
  /\ op.name \in {"handleClockOut", "handleManualSubmit", "handleDeleteLog"}
  /\ op.outcome = "done"

C24_LogsStayUntilDeleted ==
  [][\A l \in ProducedLogs :
       \/ l \in {logs'[i] : i \in 1..Len(logs')}
       \/ handleDeleteLog(l.id)]_vars

\* a handler of the timer, the form or the log list ran in the last step
LocalAction ==
  op.name \in {"handleClockIn", "handleStartBreak", "handleEndBreak",
               "handleClockOut", "handleManualSubmit", "handleDeleteLog"}

\* C25: with no remote binding (empty pantryId) the session load sets the
\* in-memory session to the locally cached session, absent if there is
\* none, and no session or log operation reads from or writes to the remote
\* store: the remote state is unchanged by any local action.
C25_LocalModeUsesCacheOnly ==
  [][/\ (handleDisconnect(TRUE) /\ pantryId' = "")
          => session' = localSession
     /\ (pantryId = "" /\ LocalAction')
          => UNCHANGED <<remoteSession, remoteLogs, sessionWrites, logWrites,
                         sessionReads, logReads>>]_vars

\* C26: the remote-session poll loop runs only while a session is active:
\* once the session has ended (clockOut to NONE) or the component is torn
\* down, no further poll tick occurs and no poll result modifies the
\* session state.
C26_PollOnlyWhileActive ==
  [][/\ (\E ok \in BOOLEAN : PollAnswered(ok)) => session # Null
     /\ \A r \in sessionReads :
          (PollDelivered(r) /\ (session = Null \/ pantryId = ""))
            => session' = session]_vars

\* C27: loading with a corrupt (unparseable) locally cached session or log
\* collection yields an absent session and an empty collection and the
\* application continues: it never ends in an error (crash) state, and the
\* unparseable text never becomes the session or the collection.
C27_CorruptCacheTreatedAsAbsent ==
  /\ op.outcome # "crashed"
  /\ session # CorruptJSON
  /\ logs # CorruptJSON
  /\ op.name = "mount" =>
       /\ localSession = CorruptJSON => session = Null
       /\ localLogs = CorruptJSON => logs = <<>>
       /\ pantryId = DEFAULT_PANTRY_ID
       /\ sessionReads = {LoadRead}

\* the application has started over a corrupt session and a corrupt
\* collection, and the user has then clocked in
C27_Witness ==
  /\ op.name = "handleClockIn"
  /\ op.outcome = "done"
  /\ localLogs = CorruptJSON
  /\ logs = <<>>
  /\ session # Null
  /\ session[1].startTime = now

\* C28: a remote session payload is adopted only if it has all the required
\* ActiveSession fields with a status of working or break: a payload with a
\* positive startTime that lacks status (or has another status) is treated
\* as absent and never becomes the local session, in memory or in the cache.
C28_OnlyValidPayloadAdopted ==
  /\ session # Null => session[1].status \in {"working", "break"}
  /\ localSession # Null => localSession[1].status \in {"working", "break"}

\* the day of the model's month on which instant ts falls in local time
\* (UTC+8), 0 for 2026-02-01
LocalDayOf(ts) == (ts + 8 * 3600000) \div 86400000

\* the day of the model's month a YYYY-MM-DD string names
DayOfDate(date) == NumberOf(SubSeq(date, 9, 10)) - 1

\* C29: the WorkLog emitted by clockOut carries date = the local calendar
\* date of the session's startTime (not of the clock-out instant, also when
\* the session crosses midnight), hourlyRate = the rate used for its pay
\* computation, and note = the fixed timer marker.
C29_TimerLogDateRateNote ==
  ClockedOut =>
    /\ op.log[1] \in ProducedLogs
    /\ SubSeq(op.log[1].date, 1, 8) = <<"2", "0", "2", "6", "-", "0", "2", "-">>
    /\ DayOfDate(op.log[1].date) = LocalDayOf(op.before[1].startTime)
    /\ op.log[1].hourlyRate = defaultRate
    /\ op.log[1].totalPay
         = payBreakdownAt(op.log[1].totalMinutes, op.log[1].hourlyRate).totalPay
    /\ op.log[1].note = TIMER_NOTE

\* a session from 09:00 to 02:00 of the next day, dated by its first day
C29_Witness ==
  /\ ClockedOut
  /\ LocalDayOf(op.before[1].startTime) = 0
  /\ LocalDayOf(op.at) = 1
  /\ op.log[1].date = DateStr(0)
  /\ op.log[1].endTime = TimeStr(2, 0)
  /\ op.log[1].totalMinutes > 0

\* C30: on a single device with a remote binding and no other writer, after
\* a committed clockOut the session stays NONE until the next clockIn: a
\* poll or load whose remote read was issued before the remote write of the
\* clock-out landed never re-creates the ended session (so the timer never
\* emits more WorkLogs than there were clockIns).
C30_EndedSessionStaysEnded ==
  [][(session = Null /\ session' # Null) => op'.name = "handleClockIn"]_vars

\* C31: on a single device with a remote binding and no other writer, a
\* session created by clockIn stays active, with its startTime, status and
\* accumulatedBreakTime as the local transitions set them, until clockOut:
\* neither the initial load still in flight at clock-in time nor a poll that
\* read the remote before the local write landed clears or overwrites it.
C31_ActiveSessionKeptUntilClockOut ==
  [][(session # Null /\ session' # session)
       => op'.name \in {"handleStartBreak", "handleEndBreak", "handleClockOut"}]_vars

\* C32: on a single device, once every remote session write that was issued
\* has been delivered, in whatever order, and no local mutation follows, the
\* remote session equals the session value written last locally (absent
\* after clockOut).
C32_RemoteSettlesOnLastWrite ==
  sessionWrites = {} => RemoteSessionValue = localSession

\* C33: if the remote session stays fixed at a present value, remote reads
\* succeed, polls keep firing and no local action occurs, then eventually
\* the in-memory session equals the remote session in all fields.  Each
\* poll applies the same update to the same pair of values, so the session
\* converges if and only if the poll that has read that value, delivered
\* with no local action in between, no write on its way to the store and no
\* load pending, leaves the session equal to it.
C33_PollConvergesToRemote ==
  [][\A r \in sessionReads :
       (/\ PollDelivered(r)
        /\ r.result # Null
        /\ RemoteSessionValue = r.result
        /\ sessionWrites = {}
        /\ sessionReads = {r}
        /\ op.name = "none")
         => session' = RemoteSessionValue']_vars

WellFormedSession(s) ==
  /\ (s.status = "break") <=> (s.breakStartTime # Null)
  /\ s.accumulatedBreakTime >= 0
  /\ s.accumulatedBreakTime
       + (IF s.breakStartTime # Null THEN now - s.breakStartTime[1] ELSE 0)
       <= now - s.startTime

StoredSessions ==
  {v \in {session, localSession, RemoteSessionValue} : v # Null /\ JSONParses(v)}

\* C34: in every reachable state the session value (in memory, in the local
\* cache and in the remote store when present) is well-formed: status is
\* break if and only if breakStartTime is non-null, accumulatedBreakTime is
\* not negative, within a session accumulatedBreakTime never decreases, and
\* accumulatedBreakTime plus the break in progress never exceeds
\* now - startTime.  Checked here for the device alone, before any other
\* device has written the store.
C34_SessionWellFormed ==
  /\ [](otherWrites = 0 => \A v \in StoredSessions : WellFormedSession(v[1]))
  /\ [][(/\ otherWrites' = 0
          /\ session # Null /\ session' # Null
          /\ session'[1].startTime = session[1].startTime)
         => session'[1].accumulatedBreakTime >= session[1].accumulatedBreakTime]_vars

\* C35: after every completed step (a load, a poll tick or a session
\* transition) the locally cached session equals the in-memory session:
\* both absent or both the same value.
C35_CacheEqualsMemorySession ==
  [][(\/ \E r \in sessionReads : LoadDelivered(r) \/ PollDelivered(r)
      \/ SessionMutated')
       => localSession' = session']_vars

\* C36: after every completed log operation (initial load, remote sync, add,
\* delete, connect, disconnect) the locally cached log collection equals the
\* in-memory log collection, so that a reload in local mode shows the logs
\* the user saw last.
C36_CacheEqualsMemoryLogs ==
  [][(\/ \E r \in logReads : SyncDelivered(r)
      \/ /\ op'.name \in {"handleManualSubmit", "handleClockOut", "handleDeleteLog",
                          "handleConnectPantry", "handleDisconnect"}
         /\ op'.outcome = "done")
       => localLogs' = logs']_vars

LogAdded ==
  /\ op.name \in {"handleManualSubmit", "handleClockOut"}
  /\ op.outcome = "done"

\* the positions of seq whose log has the id
PositionsOf(seq, id) == {i \in 1..Len(seq) : seq[i].id = id}

OrderedPair(a, b) ==
  \/ DayOfDate(a.date) > DayOfDate(b.date)
  \/ /\ a.date = b.date
     /\ MinuteOfDay(a.startTime) >= MinuteOfDay(b.startTime)

\* C38: in every reachable state the local log collection is ordered by date
\* descending and, within a date, by startTime descending; add, delete and
\* the adoption of the remote logs all preserve this order.
C38_LogsOrdered ==
  \A i, j \in 1..Len(logs) : i < j => OrderedPair(logs[i], logs[j])

\* a log has been added behind a log of a later date
C38_Witness ==
  /\ LogAdded
  /\ Len(logs) = 2
  /\ logs[2] = op.log[1]
  /\ DayOfDate(logs[1].date) > DayOfDate(logs[2].date)

\* C39: round trip of the remote session: after updateRemoteSession(null)
\* has completed, getRemoteSession returns absent (the cleared marker
\* {startTime: 0, status: 'idle'} is never returned as a session); after
\* updateRemoteSession(s) with s.startTime > 0 has completed,
\* getRemoteSession returns a session equal to s in all four fields.
C39_SessionRoundTrip ==
  [][\A w \in sessionWrites :
       SessionWriteEnds(w, TRUE)
         => \E x \in {Null, Some(w)} :
              /\ x # Null => x[1].startTime > 0
              /\ w = sessionBody(x)
              /\ getRemoteSession(remoteSession', TRUE) = x]_vars

\* the write of a clock-out has completed: the store holds the cleared marker
C39_Witness ==
  /\ remoteSession = Some(ClearedMarker)
  /\ sessionWrites = {}
  /\ session = Null
  /\ Len(logs) = 1

\* C40: for non-negative integer inputs the totalPay of calculatePayBreakdown
\* is monotone: m1 <= m2 implies totalPay(m1, r) <= totalPay(m2, r), and
\* r1 <= r2 implies totalPay(m, r1) <= totalPay(m, r2); totalPay is 0 when
\* minutes = 0 or rate = 0.  Monotone in the minutes follows from every step
\* m to m + 1.
C40_TotalPayMonotone ==
  (PayReturned /\ pure.totalMinutes >= 0 /\ pure.hourlyRate >= 0) =>
    LET m == pure.totalMinutes
        r == pure.hourlyRate
        pay == pure.breakdown.totalPay
    IN /\ m < MaxMinutes => pay <= calculatePayBreakdown(m + 1, r).totalPay
       /\ \A r2 \in PayRates :
            r <= r2 => pay <= calculatePayBreakdown(m, r2).totalPay
       /\ (m = 0 \/ r = 0) => pay = 0

\* a call that has entered the second overtime tier and pays more than the
\* call with one minute less
C40_Witness ==
  /\ PayReturned
  /\ pure.totalMinutes = 601
  /\ pure.hourlyRate = 220
  /\ pure.breakdown.totalPay > calculatePayBreakdown(600, 220).totalPay

====
